---------------------------- MODULE Spec2Model ----------------------------
(***************************************************************************)
(* Model of the live-events aggregation backend (backend/server.js):      *)
(* GET /api/shows fans out to the enabled datasources, collects their      *)
(* results, applies the weekday cutoff, sorts and answers.                 *)
(*                                                                         *)
(* Time is counted in minutes from Monday 00:00 UTC of a model week.       *)
(* An ISO-8601 string is a record [t, timed, z]: t the wall-clock minutes  *)
(* the string spells, timed whether it has an HH:MM part, z whether it     *)
(* ends in "Z".  The JavaScript null string is NullIso.                    *)
(***************************************************************************)
EXTENDS Integers, Sequences, FiniteSets, TLC

VARIABLES
    apiKey,      \* TICKETMASTER_API_KEY is set (process environment)
    serverTz,    \* UTC offset, in minutes, of the server's local time zone
    enabled,     \* ids of the datasources whose enabled flag is set
    now,         \* wall clock, seconds since the server started
    cache,       \* response cache: set of entries [coll, key, writtenAt, events]
    phase,       \* position of the GET /api/shows handler
    query,       \* req.query of the request in flight
    context,     \* { latitude, longitude, radiusMiles, lookaheadDays }
    fetchState,  \* per datasource: position of its runDatasourceFetch promise
    results,     \* per datasource: the value its promise resolved with
    netCalls,    \* per datasource: upstream HTTP requests issued for this request
    response,    \* what res.status(...).json(...) sent
    eventbriteCache, \* the eventbriteProxy function's in-memory Map, in insertion order
    initialized,   \* browser client: initShowsPanel has run
    isDiscovering, \* browser client: a discoverNewEvents call is in progress
    cachedEvents,  \* browser client: the shows.cachedEvents item of localStorage
    showsRequests, \* browser client: who issued each /api/shows request so far
    fnPc,        \* position of the pure-function harness
    fnIn,        \* input of the pure-function harness
    fnOut        \* output of the pure-function harness

vars == <<apiKey, serverTz, enabled, now, cache, phase, query, context,
          fetchState, results, netCalls, response, eventbriteCache,
          initialized, isDiscovering, cachedEvents, showsRequests,
          fnPc, fnIn, fnOut>>

orchVars == <<apiKey, serverTz, enabled, now, cache, phase, query, context,
              fetchState, results, netCalls, response>>

fnVars == <<fnPc, fnIn, fnOut>>

proxyVars == <<eventbriteCache>>

clientVars == <<initialized, isDiscovering, cachedEvents, showsRequests>>

-----------------------------------------------------------------------------
(* Bounds *)

MaxSortLen == 3

MaxClock == 1

-----------------------------------------------------------------------------
(* Program constants *)

TICKETMASTER_MAX_RADIUS_MILES == 150

TICKETMASTER_DEFAULT_RADIUS == 50

TICKETMASTER_DEFAULT_DAYS == 14

CLAMP_DAYS_MAX == 31

WEEKDAY_CUTOFF_HOUR == 16

WEEKDAY_CUTOFF_MINUTE == 30

\* the browser client's MAX_LOOKAHEAD_DAYS, the largest window it may request
MAX_LOOKAHEAD_DAYS == 60

-----------------------------------------------------------------------------
(* Values *)

Null == 0 - 1

NullIso == [t |-> Null, timed |-> FALSE, z |-> FALSE]

MinutesPerDay == 24 * 60

Min(a, b) == IF a < b THEN a ELSE b

Max(a, b) == IF a > b THEN a ELSE b

DayTime(day, hour, minute) == day * MinutesPerDay + hour * 60 + minute

\* Date.prototype.toISOString: the UTC instant spelled with a trailing Z
toISOString(instant) == [t |-> instant, timed |-> TRUE, z |-> TRUE]

\* new Date(string).getTime() / Date.parse: a string without a zone is read in
\* the server's local zone, a date-only string as UTC midnight; Null is NaN
DateParse(iso) ==
    IF iso = NullIso THEN Null
    ELSE IF iso.z \/ ~iso.timed THEN iso.t
    ELSE iso.t - serverTz

-----------------------------------------------------------------------------
(* Query parsing: a raw query value is absent, not a number, or a number.   *)
(* Radii are counted in tenths of a mile so that a fraction can be asked.   *)

RadiusScale == 2 * 5

Absent == [kind |-> "absent", n |-> 0]

NotANumber == [kind |-> "invalid", n |-> 0]

Num(n) == [kind |-> "num", n |-> n]

\* parseNumberQuery: null when absent or not finite
parseNumberQuery(value) ==
    IF value.kind = "num" THEN value.n ELSE Null

clampDays(value) ==
    IF value.kind = "absent" THEN TICKETMASTER_DEFAULT_DAYS
    ELSE IF value.kind = "invalid" THEN TICKETMASTER_DEFAULT_DAYS
    ELSE Min(Max(value.n, 1), CLAMP_DAYS_MAX)

\* GET /api/shows: radiusMiles (tenths of a mile)
resolveRadius(value) ==
    LET parsedRadius == parseNumberQuery(value)
    IN IF value.kind = "num" /\ parsedRadius > 0
       THEN Min(Max(parsedRadius, 1 * RadiusScale),
                TICKETMASTER_MAX_RADIUS_MILES * RadiusScale)
       ELSE TICKETMASTER_DEFAULT_RADIUS * RadiusScale

\* GET /api/shows: clampDays(req.query.days) || TICKETMASTER_DEFAULT_DAYS
resolveDays(value) ==
    LET d == clampDays(value)
    IN IF d = 0 THEN TICKETMASTER_DEFAULT_DAYS ELSE d

\* fetchTicketmasterEvents: resolvedRadius, resolvedDays of a numeric context
resolvedRadius(radiusMiles) ==
    IF radiusMiles > 0
    THEN Min(Max(radiusMiles, 1 * RadiusScale),
             TICKETMASTER_MAX_RADIUS_MILES * RadiusScale)
    ELSE TICKETMASTER_DEFAULT_RADIUS * RadiusScale

resolvedDays(lookaheadDays) == clampDays(Num(lookaheadDays))

-----------------------------------------------------------------------------
(* Canonical events.  An event is [id, source, start: [local, utc],         *)
(* distance]; a missing distance is Null, a missing timestamp NullIso.      *)

\* An id string is the tuple of its "::"-separated parts <<prefix, slug, date>>;
\* an upstream Ticketmaster id has no prefix and no date part
TmId(rawId) == <<"", rawId, Null>>

Event(id, source, local, utc, distance) ==
    [id |-> id, source |-> source, start |-> [local |-> local, utc |-> utc],
     distance |-> distance]

\* A raw Ticketmaster Discovery event: dates.start.{localDate, localTime,
\* dateTime}, the venue-local wall clock and the UTC instant of the same start.
\* localDate is a day number, localTime minutes after midnight, dateTime an
\* instant; each may be Null.
RawTicketmasterEvent(id, localDate, localTime, dateTime, distance) ==
    [id |-> id, localDate |-> localDate, localTime |-> localTime,
     dateTime |-> dateTime, distance |-> distance]

\* formatTicketmasterEvent: start.local is new Date(localDateTime).toISOString()
\* where localDateTime is start.dateTime when present, otherwise
\* localDate + 'T' + (localTime or 00:00:00) read in the server's zone;
\* start.utc is new Date(start.dateTime).toISOString() or null
formatTicketmasterEvent(raw) ==
    LET localDateTime ==
            IF raw.dateTime # Null THEN toISOString(raw.dateTime)
            ELSE IF raw.localDate # Null
                 THEN [t |-> raw.localDate * MinutesPerDay +
                             (IF raw.localTime # Null THEN raw.localTime ELSE 0),
                       timed |-> TRUE, z |-> FALSE]
                 ELSE NullIso
        localIso == IF localDateTime # NullIso
                    THEN toISOString(DateParse(localDateTime))
                    ELSE NullIso
        utcIso == IF raw.dateTime # Null THEN toISOString(raw.dateTime)
                  ELSE NullIso
    IN Event(raw.id, "ticketmaster", localIso, utcIso, raw.distance)

\* getEventStartValue: start.local, else start.utc, else ''
getEventStartValue(event) ==
    IF event.start.local # NullIso THEN event.start.local
    ELSE IF event.start.utc # NullIso THEN event.start.utc
    ELSE NullIso

\* parseEventLocalParts: the date and HH:MM the string spells, zone ignored
parseEventLocalParts(value) ==
    [day |-> value.t \div MinutesPerDay,
     hour |-> IF value.timed THEN (value.t % MinutesPerDay) \div 60 ELSE Null,
     minute |-> IF value.timed THEN value.t % 60 ELSE Null]

\* new Date(Date.UTC(y, m, d)).getUTCDay(): 0 is Sunday; day 0 is a Monday
getUTCDay(day) == (day + 1) % 7

isWeekdayBeforeCutoff(event) ==
    IF event.source # "" /\ event.source # "ticketmaster" THEN FALSE
    ELSE LET raw == getEventStartValue(event)
         IN IF raw = NullIso THEN FALSE
            ELSE LET parts == parseEventLocalParts(raw)
                     weekday == getUTCDay(parts.day)
                 IN IF ~(weekday >= 1 /\ weekday <= 5) THEN FALSE
                    ELSE IF parts.hour = Null \/ parts.minute = Null THEN FALSE
                    ELSE IF parts.hour < WEEKDAY_CUTOFF_HOUR THEN TRUE
                    ELSE IF parts.hour = WEEKDAY_CUTOFF_HOUR
                            /\ parts.minute < WEEKDAY_CUTOFF_MINUTE THEN TRUE
                    ELSE FALSE

applyWeekdayCutoff(events) ==
    SelectSeq(events, LAMBDA event : ~isWeekdayBeforeCutoff(event))

-----------------------------------------------------------------------------
(* sortEventsByTimeAndDistance *)

\* a comparator that reads start.utc only
sortTime_UtcOnly(e) ==
    IF e.start.utc # NullIso THEN DateParse(e.start.utc) ELSE Null

\* aTime / bTime of the comparator; Null stands for a non-finite number
sortTime(e) ==
    IF e.start.utc # NullIso THEN DateParse(e.start.utc)
    ELSE IF e.start.local # NullIso THEN DateParse(e.start.local)
    ELSE Null

\* a comparator without the distance tie-break
compareEvents_TimeOnly(a, b) ==
    LET aTime == sortTime(a)
        bTime == sortTime(b)
    IN IF aTime # Null /\ bTime # Null /\ aTime # bTime
       THEN (IF aTime < bTime THEN 0 - 1 ELSE 1)
       ELSE IF aTime # Null /\ bTime = Null THEN 0 - 1
       ELSE IF aTime = Null /\ bTime # Null THEN 1
       ELSE 0

\* the comparator's sign; a NaN result (Infinity - Infinity) counts as 0
compareEvents(a, b) ==
    LET aTime == sortTime(a)
        bTime == sortTime(b)
        byDistance ==
            IF a.distance # Null /\ b.distance # Null
            THEN (IF a.distance < b.distance THEN 0 - 1
                  ELSE IF a.distance > b.distance THEN 1 ELSE 0)
            ELSE IF a.distance # Null THEN 0 - 1
            ELSE IF b.distance # Null THEN 1
            ELSE 0
    IN IF aTime # Null /\ bTime # Null /\ aTime # bTime
       THEN (IF aTime < bTime THEN 0 - 1 ELSE 1)
       ELSE IF aTime # Null /\ bTime = Null THEN 0 - 1
       ELSE IF aTime = Null /\ bTime # Null THEN 1
       ELSE byDistance

\* Array.prototype.sort is stable: an element goes after every element that
\* does not compare greater than it
RECURSIVE insertSorted(_, _)
insertSorted(sorted, e) ==
    IF sorted = <<>> THEN <<e>>
    ELSE IF compareEvents(Head(sorted), e) <= 0
         THEN <<Head(sorted)>> \o insertSorted(Tail(sorted), e)
         ELSE <<e>> \o sorted

RECURSIVE sortFrom(_, _)
sortFrom(sorted, rest) ==
    IF rest = <<>> THEN sorted
    ELSE sortFrom(insertSorted(sorted, Head(rest)), Tail(rest))

sortEventsByTimeAndDistance(events) == sortFrom(<<>>, events)

-----------------------------------------------------------------------------
(* Datasources (buildDefaultDatasources plus one of a type that has no      *)
(* fetch handler).  The list is kept in its configured order.               *)

Datasources == <<
    [id |-> "ticketmaster", type |-> "ticketmaster"],
    [id |-> "dcimprov",     type |-> "dcimprov"],
    [id |-> "smithsonian",  type |-> "rss"],
    [id |-> "jsonfeed",     type |-> "json"] >>

SourceIds == {Datasources[i].id : i \in DOMAIN Datasources}

SourceOf(id) == CHOOSE s \in {Datasources[i] : i \in DOMAIN Datasources} : s.id = id

\* sources.filter(source => source.enabled), in list order
enabledSources == SelectSeq(Datasources, LAMBDA s : s.id \in enabled)

NoResult == [ok |-> FALSE, events |-> <<>>, cached |-> FALSE, summary |-> <<>>,
             code |-> ""]

NoResponse == [status |-> 0, error |-> "", events |-> <<>>, sources |-> <<>>,
               cached |-> FALSE, radiusMiles |-> 0, lookaheadDays |-> 0]

NoContext == [radiusMiles |-> 0, lookaheadDays |-> 0]

NoQuery == [latlon |-> FALSE, radius |-> Absent, days |-> Absent]

\* loadCachedEvents returning null: localStorage has no usable item
NoCache == [count |-> 0 - 1, fetchedAt |-> 0 - 1, location |-> FALSE]

\* the orchestrator at rest, as the pure-function harnesses leave it
OrchIdle ==
    /\ apiKey = TRUE
    /\ enabled = {}
    /\ now = 0
    /\ cache = {}
    /\ phase = "idle"
    /\ query = NoQuery
    /\ context = NoContext
    /\ fetchState = [s \in SourceIds |-> "none"]
    /\ results = [s \in SourceIds |-> NoResult]
    /\ netCalls = [s \in SourceIds |-> 0]
    /\ response = NoResponse
    /\ eventbriteCache = <<>>
    /\ initialized = FALSE
    /\ isDiscovering = FALSE
    /\ cachedEvents = NoCache
    /\ showsRequests = <<>>

-----------------------------------------------------------------------------
(* Response cache (shared/cache.js).  An entry is                           *)
(* [coll, key, writtenAt, events]; a write supersedes the entry of its key. *)

TICKETMASTER_CACHE_TTL_S == 900

DC_IMPROV_CACHE_TTL_S == 1800

RSS_CACHE_TTL_S == 1800

SecondsPerDay == 24 * 60 * 60

\* readCachedResponse: the entry of the key while now - writtenAt < ttl,
\* otherwise nothing
readCachedResponse(coll, key, ttl) ==
    {e \in cache : e.coll = coll /\ e.key = key /\ now - e.writtenAt < ttl}

\* writeCachedResponse
writeCachedResponse(coll, key, events) ==
    {e \in cache : ~(e.coll = coll /\ e.key = key)}
        \cup {[coll |-> coll, key |-> key, writtenAt |-> now, events |-> events]}

\* safeWriteCachedResponse: a failing write is logged and leaves the cache as
\* it was
safeWriteCachedResponse(coll, key, events, writeOk) ==
    IF writeOk THEN writeCachedResponse(coll, key, events) ELSE cache

\* ticketmasterCacheKeyParts for the one location of the model: radius, the
\* second the fetch started and the end of its window, and the segment keys
ticketmasterCacheKeyParts(radiusMiles, startDateTime, endDateTime) ==
    <<"ticketmaster", "v1", radiusMiles, startDateTime, endDateTime, "music,comedy">>

dcImprovCacheKey == <<"dcimprov", "v4">>

rssCacheKeyParts(feedUrl, lookaheadDays) == <<"rss", "v1", feedUrl, lookaheadDays>>

-----------------------------------------------------------------------------
(* Upstream answers.  An answer is [ok, status, body]: a 2xx response with  *)
(* its items, a non-2xx response, or a request that threw (status Null) or  *)
(* was aborted by the adapter's timeout (status 408).                       *)

Ok(body) == [ok |-> TRUE, status |-> 200, body |-> body]

Failed(status) == [ok |-> FALSE, status |-> status, body |-> <<>>]

\* Two Ticketmaster segments: a Tuesday 15:00 show and a Saturday 20:00 show
\* under music; the Saturday show again and an undated one under comedy
TmTue1500 == RawTicketmasterEvent(TmId("G1"), 1, 15 * 60, DayTime(1, 15, 0), 12)

TmSat2000 == RawTicketmasterEvent(TmId("G2"), 5, 20 * 60, DayTime(5, 20, 0), 3)

TmSat2000Far == RawTicketmasterEvent(TmId("G2"), 5, 20 * 60, DayTime(5, 20, 0), 30)

TmUndated == RawTicketmasterEvent(TmId("G3"), Null, Null, Null, Null)

SegmentAnswers(segment) ==
    IF segment = "music"
    THEN {Failed(429), Ok(<<TmTue1500, TmSat2000>>)}
    ELSE {Failed(500), Ok(<<TmSat2000Far, TmUndated>>)}

\* DC Improv listings [name, day, time]: one show listed twice on one date
DcImprovAnswers ==
    { Failed(503), Failed(Null),
      Ok(<<[name |-> "show-a", day |-> 5, time |-> 19 * 60],
           [name |-> "show-b", day |-> 3, time |-> Null],
           [name |-> "show-a", day |-> 5, time |-> 21 * 60 + 30]>>) }

\* RSS items [guid, start]
RssAnswers ==
    { Failed(408), Failed(500),
      Ok(<<[guid |-> "guid-1", start |-> DayTime(5, 20, 0)],
           [guid |-> "guid-2", start |-> Null]>>) }

-----------------------------------------------------------------------------
(* Adapters.  Each returns [ok, events, cached, status, code, message,      *)
(* cache, calls]: the value or the error of the handler's fetch, the cache  *)
(* it leaves and the upstream requests it issued.                           *)

Returned(events, isCached, newCache, calls) ==
    [ok |-> TRUE, events |-> events, cached |-> isCached, status |-> Null,
     code |-> "", message |-> "", cache |-> newCache, calls |-> calls]

Thrown(status, code, message, calls) ==
    [ok |-> FALSE, events |-> <<>>, cached |-> FALSE, status |-> status,
     code |-> code, message |-> message, cache |-> cache, calls |-> calls]

\* the loop of fetchTicketmasterEvents over segmentResults: the events of the
\* successful segments in request order, the first event of an id kept
RECURSIVE dedupeById(_, _)
dedupeById(kept, rest) ==
    IF rest = <<>> THEN kept
    ELSE IF \E i \in 1..Len(kept) : kept[i].id = Head(rest).id
         THEN dedupeById(kept, Tail(rest))
         ELSE dedupeById(Append(kept, Head(rest)), Tail(rest))

MapSeq(f(_), s) == [i \in 1..Len(s) |-> f(s[i])]

TICKETMASTER_SEGMENTS == <<"music", "comedy">>

\* a loop that visits the comedy result before the music result
combineSegments_ComedyFirst(music, comedy) ==
    dedupeById(<<>>,
        (IF comedy.ok THEN MapSeq(formatTicketmasterEvent, comedy.body) ELSE <<>>)
        \o (IF music.ok THEN MapSeq(formatTicketmasterEvent, music.body) ELSE <<>>))

combineSegments(music, comedy) ==
    dedupeById(<<>>,
        (IF music.ok THEN MapSeq(formatTicketmasterEvent, music.body) ELSE <<>>)
        \o (IF comedy.ok THEN MapSeq(formatTicketmasterEvent, comedy.body) ELSE <<>>))

\* the entry the loop pushes for one segment: ok, status and total of a
\* fulfilled request, ok: false and the error's status of a rejected one
segmentSummary(key, answer) ==
    IF answer.ok
    THEN [key |-> key, ok |-> TRUE, status |-> answer.status,
          total |-> Len(answer.body)]
    ELSE [key |-> key, ok |-> FALSE, status |-> answer.status, total |-> Null]

\* a loop that pushes a summary for the fulfilled requests only
segmentSummaries_SuccessfulOnly(music, comedy) ==
    SelectSeq(<<segmentSummary(TICKETMASTER_SEGMENTS[1], music),
                segmentSummary(TICKETMASTER_SEGMENTS[2], comedy)>>,
              LAMBDA summary : summary.ok)

\* segmentSummaries after the loop: one entry per segment, in request order
segmentSummaries(music, comedy) ==
    <<segmentSummary(TICKETMASTER_SEGMENTS[1], music),
      segmentSummary(TICKETMASTER_SEGMENTS[2], comedy)>>

\* the flag successful after the loop
successful(music, comedy) == music.ok \/ comedy.ok

\* what fetchTicketmasterEvents makes of segmentResults: the thrown error
\* with its segments, or the payload's events and segments
ticketmasterPayload(music, comedy) ==
    IF ~successful(music, comedy)
    THEN [ok |-> FALSE, status |-> 502, code |-> "ticketmaster_fetch_failed",
          events |-> <<>>, segments |-> segmentSummaries(music, comedy)]
    ELSE [ok |-> TRUE, status |-> Null, code |-> "",
          events |-> combineSegments(music, comedy),
          segments |-> segmentSummaries(music, comedy)]

\* fetchTicketmasterEvents followed by DATASOURCE_HANDLERS.ticketmaster.fetch
fetchTicketmasterEvents(ctx, music, comedy, writeOk) ==
    IF ~apiKey
    THEN Thrown(500, "ticketmaster_api_key_missing", "Ticketmaster API key missing", 0)
    ELSE
    LET radius == resolvedRadius(ctx.radiusMiles)
        days == resolvedDays(ctx.lookaheadDays)
        cacheKey == ticketmasterCacheKeyParts(radius, now, now + days * SecondsPerDay)
        hit == readCachedResponse("ticketmasterCache", cacheKey, TICKETMASTER_CACHE_TTL_S)
    IN IF hit # {}
       THEN Returned(applyWeekdayCutoff((CHOOSE e \in hit : TRUE).events), TRUE, cache, 0)
       ELSE IF ~successful(music, comedy)
       THEN Thrown(502, "ticketmaster_fetch_failed", "Ticketmaster fetch failed", 2)
       ELSE LET events == combineSegments(music, comedy)
            IN Returned(applyWeekdayCutoff(events), FALSE,
                        safeWriteCachedResponse("ticketmasterCache", cacheKey,
                                                events, writeOk),
                        2)

DcImprovDistance == 5

\* buildDcImprovEventId: dcimprov::slug(name)::date part of the local start
buildDcImprovEventId(name, localIso) ==
    <<"dcimprov", name, localIso.t \div MinutesPerDay>>

\* parseDcImprovShows: one event per listed show, at 20:00 when the date line
\* has no time
parseDcImprovShows(shows) ==
    MapSeq(LAMBDA show :
               LET localIso == [t |-> show.day * MinutesPerDay +
                                      (IF show.time # Null THEN show.time ELSE 20 * 60),
                                timed |-> TRUE, z |-> FALSE]
               IN Event(buildDcImprovEventId(show.name, localIso), "dcimprov",
                        localIso, NullIso, Null),
           shows)

applyDcImprovDistance(events) ==
    MapSeq(LAMBDA e : [e EXCEPT !.distance = DcImprovDistance], events)

\* fetchDcImprovEvents followed by DATASOURCE_HANDLERS.dcimprov.fetch
fetchDcImprovEvents(answer, writeOk) ==
    LET hit == readCachedResponse("dcImprovCache", dcImprovCacheKey, DC_IMPROV_CACHE_TTL_S)
    IN IF hit # {}
       THEN Returned(applyWeekdayCutoff(
                         applyDcImprovDistance((CHOOSE e \in hit : TRUE).events)),
                     TRUE, cache, 0)
       ELSE IF ~answer.ok
       THEN Thrown(answer.status, "", "DC Improv request failed", 1)
       ELSE LET events == parseDcImprovShows(answer.body)
            IN Returned(applyWeekdayCutoff(applyDcImprovDistance(events)), FALSE,
                        safeWriteCachedResponse("dcImprovCache", dcImprovCacheKey,
                                                events, writeOk),
                        1)

\* buildRssEventId: sourceId::slug(guid)::date part of the start
buildRssEventId(sourceId, guid, start) ==
    <<sourceId, guid, IF start # Null THEN start \div MinutesPerDay ELSE Null>>

\* parseRssEventItem: start.local and start.utc are both startIso or both null
parseRssFeed(items, source) ==
    MapSeq(LAMBDA item :
               LET startIso == IF item.start # Null THEN toISOString(item.start)
                               ELSE NullIso
               IN Event(buildRssEventId(source.id, item.guid, item.start), source.id,
                        startIso, startIso, Null),
           items)

\* fetchRssEvents followed by DATASOURCE_HANDLERS.rss.fetch
fetchRssEvents(source, ctx, answer, writeOk) ==
    LET lookaheadDays == resolvedDays(ctx.lookaheadDays)
        cacheKeyParts == rssCacheKeyParts(source.id, lookaheadDays)
        hit == readCachedResponse("rssCache", cacheKeyParts, RSS_CACHE_TTL_S)
    IN IF hit # {}
       THEN Returned(applyWeekdayCutoff((CHOOSE e \in hit : TRUE).events), TRUE, cache, 0)
       ELSE IF ~answer.ok
       THEN Thrown(answer.status, "",
                   IF answer.status = 408 THEN "RSS request timed out"
                   ELSE "RSS request failed", 1)
       ELSE LET events == parseRssFeed(answer.body, source)
            IN Returned(applyWeekdayCutoff(events), FALSE,
                        safeWriteCachedResponse("rssCache", cacheKeyParts,
                                                events, writeOk),
                        1)

-----------------------------------------------------------------------------
(* runDatasourceFetch and GET /api/shows                                    *)

Summary(source, ok, total, status, error) ==
    [id |-> source.id, type |-> source.type, ok |-> ok, total |-> total,
     status |-> status, error |-> error]

HasFetchHandler(type) == type \in {"ticketmaster", "dcimprov", "rss"}

\* runDatasourceFetch: the handler's value or error turned into a result that
\* always resolves
runDatasourceFetch(source, outcome) ==
    IF ~HasFetchHandler(source.type)
    THEN [ok |-> FALSE, events |-> <<>>, cached |-> FALSE,
          summary |-> <<Summary(source, FALSE, Null, Null, "unsupported_source_type")>>,
          code |-> ""]
    ELSE IF outcome.ok
    THEN [ok |-> TRUE, events |-> outcome.events, cached |-> outcome.cached,
          summary |-> <<Summary(source, TRUE, Len(outcome.events), Null, "")>>,
          code |-> ""]
    ELSE [ok |-> FALSE, events |-> <<>>, cached |-> FALSE,
          summary |-> <<Summary(source, FALSE, Null, outcome.status, outcome.message)>>,
          code |-> outcome.code]

\* a request for 75.5 miles and 45 days, and one without coordinates
MainQueries ==
    { [latlon |-> TRUE,  radius |-> Num(755), days |-> Num(45)],
      [latlon |-> FALSE, radius |-> Absent,   days |-> Absent] }

Init ==
    /\ apiKey \in BOOLEAN
    /\ serverTz = 0
    /\ enabled \in SUBSET SourceIds
    /\ now = 0
    /\ cache = {}
    /\ phase = "idle"
    /\ query = NoQuery
    /\ context = NoContext
    /\ fetchState = [s \in SourceIds |-> "none"]
    /\ results = [s \in SourceIds |-> NoResult]
    /\ netCalls = [s \in SourceIds |-> 0]
    /\ response = NoResponse
    /\ eventbriteCache = <<>>
    /\ initialized = FALSE
    /\ isDiscovering = FALSE
    /\ cachedEvents = NoCache
    /\ showsRequests = <<>>
    /\ fnPc = "off"
    /\ fnIn = <<>>
    /\ fnOut = <<>>

ErrorResponse(status, error, sources) ==
    [status |-> status, error |-> error, events |-> <<>>, sources |-> sources,
     cached |-> FALSE, radiusMiles |-> 0, lookaheadDays |-> 0]

\* GET /api/shows up to Promise.all: 400 without coordinates, 500 without an
\* enabled source, otherwise one runDatasourceFetch per enabled source
Request(q) ==
    /\ phase = "idle"
    /\ query' = q
    /\ IF ~q.latlon
       THEN /\ response' = ErrorResponse(400, "missing_coordinates", <<>>)
            /\ phase' = "done"
            /\ UNCHANGED <<context, fetchState>>
       ELSE IF enabled = {}
       THEN /\ response' = ErrorResponse(500, "no_enabled_sources", <<>>)
            /\ phase' = "done"
            /\ UNCHANGED <<context, fetchState>>
       ELSE /\ context' = [radiusMiles |-> resolveRadius(q.radius),
                           lookaheadDays |-> resolveDays(q.days)]
            /\ fetchState' = [s \in SourceIds |->
                                 IF s \in enabled THEN "pending" ELSE "none"]
            /\ phase' = "collecting"
            /\ UNCHANGED response
    /\ UNCHANGED <<apiKey, serverTz, enabled, now, cache, results, netCalls>>
    /\ UNCHANGED <<fnVars, proxyVars, clientVars>>

Settle(s, outcome) ==
    /\ results' = [results EXCEPT ![s] = runDatasourceFetch(SourceOf(s), outcome)]
    /\ fetchState' = [fetchState EXCEPT ![s] = "settled"]
    /\ netCalls' = [netCalls EXCEPT ![s] = outcome.calls]
    /\ cache' = outcome.cache
    /\ UNCHANGED <<apiKey, serverTz, enabled, now, phase, query, context, response>>
    /\ UNCHANGED <<fnVars, proxyVars, clientVars>>

\* a source whose type has no fetch handler
SettleUnsupported(s) ==
    /\ phase = "collecting"
    /\ fetchState[s] = "pending"
    /\ ~HasFetchHandler(SourceOf(s).type)
    /\ Settle(s, Thrown(Null, "", "unsupported_source_type", 0))

SettleTicketmaster(s, music, comedy, writeOk) ==
    /\ phase = "collecting"
    /\ fetchState[s] = "pending"
    /\ SourceOf(s).type = "ticketmaster"
    /\ Settle(s, fetchTicketmasterEvents(context, music, comedy, writeOk))

SettleDcImprov(s, answer, writeOk) ==
    /\ phase = "collecting"
    /\ fetchState[s] = "pending"
    /\ SourceOf(s).type = "dcimprov"
    /\ Settle(s, fetchDcImprovEvents(answer, writeOk))

SettleRss(s, answer, writeOk) ==
    /\ phase = "collecting"
    /\ fetchState[s] = "pending"
    /\ SourceOf(s).type = "rss"
    /\ Settle(s, fetchRssEvents(SourceOf(s), context, answer, writeOk))

RECURSIVE concatEvents(_)
concatEvents(rs) ==
    IF rs = <<>> THEN <<>>
    ELSE (IF Head(rs).ok THEN Head(rs).events ELSE <<>>) \o concatEvents(Tail(rs))

RECURSIVE concatSummaries(_)
concatSummaries(rs) ==
    IF rs = <<>> THEN <<>>
    ELSE Head(rs).summary \o concatSummaries(Tail(rs))

\* Promise.all answering as soon as one promise has resolved
allSettled_First == \E s \in enabled : fetchState[s] = "settled"

\* await Promise.all(...): every runDatasourceFetch promise has resolved
allSettled == \A s \in enabled : fetchState[s] = "settled"

\* a failed source failing the request
anySuccess_AllOk(rs) == \A i \in 1..Len(rs) : rs[i].ok

\* anySuccess after results.forEach
anySuccess(rs) == \E i \in 1..Len(rs) : rs[i].ok

\* a missing key failing the request although another source succeeded
requestFails_OnMissingKey(rs) ==
    \/ ~anySuccess(rs)
    \/ \E i \in 1..Len(rs) : rs[i].code = "ticketmaster_api_key_missing"

\* if (!anySuccess)
requestFails(rs) == ~anySuccess(rs)

\* the flag set as soon as one source was served from cache
overallCached_Any(rs) == \E i \in 1..Len(rs) : rs[i].ok /\ rs[i].cached

\* cached after results.forEach: every source succeeded and was served from
\* cache
overallCached(rs) == \A i \in 1..Len(rs) : rs[i].ok /\ rs[i].cached

\* every aggregate failure answered 502
aggregateError_Always502(rs) ==
    ErrorResponse(502, "datasource_fetch_failed", concatSummaries(rs))

\* the aggregate error: 500 when a result carries the missing-key error,
\* otherwise 502
aggregateError(rs) ==
    IF \E i \in 1..Len(rs) : rs[i].code = "ticketmaster_api_key_missing"
    THEN ErrorResponse(500, "ticketmaster_api_key_missing", concatSummaries(rs))
    ELSE ErrorResponse(502, "datasource_fetch_failed", concatSummaries(rs))

\* the payload or the aggregate error built from the results
buildResponse(rs) ==
    IF requestFails(rs)
    THEN aggregateError(rs)
    ELSE [status |-> 200, error |-> "",
          events |-> sortEventsByTimeAndDistance(applyWeekdayCutoff(concatEvents(rs))),
          sources |-> concatSummaries(rs),
          cached |-> overallCached(rs),
          radiusMiles |-> context.radiusMiles,
          lookaheadDays |-> context.lookaheadDays]

\* the results in the order the fetches finished, those served from cache
\* ahead of those that went upstream
settledResults_CachedFirst ==
    LET inOrder == MapSeq(LAMBDA src : results[src.id], enabledSources)
    IN SelectSeq(inOrder, LAMBDA r : r.cached) \o SelectSeq(inOrder, LAMBDA r : ~r.cached)

\* the array Promise.all resolves with: one result per enabled source, in the
\* order of enabledSources
settledResults == MapSeq(LAMBDA src : results[src.id], enabledSources)

\* GET /api/shows after Promise.all
Respond ==
    /\ phase = "collecting"
    /\ allSettled
    /\ response' = buildResponse(settledResults)
    /\ phase' = "done"
    /\ UNCHANGED <<apiKey, serverTz, enabled, now, cache, query, context,
                   fetchState, results, netCalls>>
    /\ UNCHANGED <<fnVars, proxyVars, clientVars>>

\* the next request arrives
NextRequest ==
    /\ phase = "done"
    /\ phase' = "idle"
    /\ query' = NoQuery
    /\ context' = NoContext
    /\ fetchState' = [s \in SourceIds |-> "none"]
    /\ results' = [s \in SourceIds |-> NoResult]
    /\ netCalls' = [s \in SourceIds |-> 0]
    /\ response' = NoResponse
    /\ UNCHANGED <<apiKey, serverTz, enabled, now, cache>>
    /\ UNCHANGED <<fnVars, proxyVars, clientVars>>

\* a second passes
Tick ==
    /\ now < MaxClock
    /\ now' = now + 1
    /\ UNCHANGED <<apiKey, serverTz, enabled, cache, phase, query, context,
                   fetchState, results, netCalls, response>>
    /\ UNCHANGED <<fnVars, proxyVars, clientVars>>

Next ==
    \/ \E q \in MainQueries : Request(q)
    \/ \E s \in SourceIds : SettleUnsupported(s)
    \/ \E s \in SourceIds, music \in SegmentAnswers("music"),
          comedy \in SegmentAnswers("comedy"), writeOk \in BOOLEAN :
            SettleTicketmaster(s, music, comedy, writeOk)
    \/ \E s \in SourceIds, answer \in DcImprovAnswers, writeOk \in BOOLEAN :
            SettleDcImprov(s, answer, writeOk)
    \/ \E s \in SourceIds, answer \in RssAnswers, writeOk \in BOOLEAN :
            SettleRss(s, answer, writeOk)
    \/ Respond
    \/ NextRequest
    \/ Tick

Spec == Init /\ [][Next]_vars

-----------------------------------------------------------------------------
(* Harness for the query parameters of GET /api/shows                       *)

RadiusInputs ==
    {Absent, NotANumber} \cup
    {Num(n) : n \in {0 - 50, 0, 5, 10, 755, 1500, 1505, 9000}}

DaysInputs ==
    {Absent, NotANumber} \cup
    {Num(n) : n \in {0 - 3, 0, 1, 14, 31, 32, 45, 60, 61, 90}}

ParamInit ==
    /\ OrchIdle
    /\ serverTz = 0
    /\ fnPc = "query"
    /\ fnIn \in [radius : RadiusInputs, days : DaysInputs]
    /\ fnOut = <<>>

\* GET /api/shows computes radiusMiles and lookaheadDays, hands them to the
\* adapters in the context (fetchTicketmasterEvents resolves them once more)
\* and reports them in the payload
ResolveQuery ==
    /\ fnPc = "query"
    /\ LET radiusMiles == resolveRadius(fnIn.radius)
           lookaheadDays == resolveDays(fnIn.days)
       IN fnOut' = [radiusMiles |-> radiusMiles,
                    lookaheadDays |-> lookaheadDays,
                    usedRadius |-> resolvedRadius(radiusMiles),
                    usedDays |-> resolvedDays(lookaheadDays)]
    /\ fnPc' = "answered"
    /\ UNCHANGED <<fnIn, serverTz>>
    /\ UNCHANGED <<orchVars, proxyVars, clientVars>>

ParamNext == ResolveQuery

ParamSpec == ParamInit /\ [][ParamNext]_vars

-----------------------------------------------------------------------------
(* Harness for the weekday cutoff: one upstream item is normalised by its   *)
(* adapter and then filtered.                                               *)

TzOffsets == {0, 0 - 300}

\* An upstream item with its venue-local start (localDate, localTime) and the
\* venue's UTC offset; Ticketmaster sends dateTime with a timed start only
CutoffItems ==
    { [source |-> src, localDate |-> d, localTime |-> tm, offset |-> off,
       hasDateTime |-> h] :
        src \in {"ticketmaster", "smithsonian", "dcimprov"},
        d \in {1, 4, 5, 6},
        tm \in {Null, 15 * 60, 16 * 60 + 29, 16 * 60 + 30, 19 * 60, 23 * 60},
        off \in TzOffsets,
        h \in BOOLEAN }

ItemInstant(item) ==
    item.localDate * MinutesPerDay + item.localTime - item.offset

\* the start of the event each adapter emits for the item:
\* formatTicketmasterEvent; parseRssEventItem (local = utc = startIso, a
\* toISOString value); parseDcImprovShows (start.local = the zone-less
\* localIso of the date line, 20:00 when the line has no time, no start.utc)
normalizeItem(item) ==
    IF item.source = "ticketmaster"
    THEN formatTicketmasterEvent(
             RawTicketmasterEvent(TmId("G1"), item.localDate, item.localTime,
                 IF item.hasDateTime THEN ItemInstant(item) ELSE Null, Null))
    ELSE IF item.source = "dcimprov"
    THEN Event(<<"dcimprov", "show-a", 1>>, "dcimprov",
               [t |-> item.localDate * MinutesPerDay +
                      (IF item.localTime # Null THEN item.localTime ELSE 20 * 60),
                timed |-> TRUE, z |-> FALSE],
               NullIso, Null)
    ELSE LET startIso == IF item.localTime # Null
                         THEN toISOString(ItemInstant(item)) ELSE NullIso
         IN Event(<<item.source, "guid-1", item.localDate>>, item.source,
                  startIso, startIso, Null)

CutoffInit ==
    /\ OrchIdle
    /\ serverTz \in TzOffsets
    /\ fnPc = "raw"
    /\ fnIn \in {i \in CutoffItems : i.hasDateTime => i.localTime # Null}
    /\ fnOut = <<>>

NormalizeEvent ==
    /\ fnPc = "raw"
    /\ fnOut' = <<normalizeItem(fnIn)>>
    /\ fnPc' = "normalized"
    /\ UNCHANGED <<fnIn, serverTz>>
    /\ UNCHANGED <<orchVars, proxyVars, clientVars>>

FilterEvent ==
    /\ fnPc = "normalized"
    /\ fnOut' = applyWeekdayCutoff(fnOut)
    /\ fnPc' = "filtered"
    /\ UNCHANGED <<fnIn, serverTz>>
    /\ UNCHANGED <<orchVars, proxyVars, clientVars>>

CutoffNext == NormalizeEvent \/ FilterEvent

CutoffSpec == CutoffInit /\ [][CutoffNext]_vars

-----------------------------------------------------------------------------
(* Harness for sortEventsByTimeAndDistance: a list of events as the         *)
(* adapters emit them is sorted.                                            *)

Tue2000 == DayTime(1, 20, 0)

Wed2000 == DayTime(2, 20, 0)

Thu1900 == DayTime(3, 19, 0)

SortUniverse ==
    { formatTicketmasterEvent(RawTicketmasterEvent(TmId("G1"), Null, Null, Tue2000, d)) :
        d \in {Null, 3, 7} }
    \cup
    { formatTicketmasterEvent(RawTicketmasterEvent(TmId("G2"), Null, Null, Thu1900, 3)),
      \* a start with localDate and localTime but no dateTime
      formatTicketmasterEvent(RawTicketmasterEvent(TmId("G3"), 2, 20 * 60, Null, 7)),
      \* no start at all
      formatTicketmasterEvent(RawTicketmasterEvent(TmId("G4"), Null, Null, Null, 3)),
      formatTicketmasterEvent(RawTicketmasterEvent(TmId("G5"), Null, Null, Null, Null)),
      Event(<<"dcimprov", "show-a", 1>>, "dcimprov",
            [t |-> Tue2000, timed |-> TRUE, z |-> FALSE], NullIso, 5),
      Event(<<"smithsonian", "guid-1", 2>>, "smithsonian",
            toISOString(Wed2000), toISOString(Wed2000), Null),
      Event(<<"smithsonian", "guid-2", Null>>, "smithsonian", NullIso, NullIso, Null) }

SortInit ==
    /\ OrchIdle
    /\ serverTz \in TzOffsets
    /\ fnPc = "unsorted"
    /\ fnIn \in UNION {[1..n -> SortUniverse] : n \in 0..MaxSortLen}
    /\ fnOut = <<>>

SortEvents ==
    /\ fnPc = "unsorted"
    /\ fnOut' = sortEventsByTimeAndDistance(fnIn)
    /\ fnPc' = "sorted"
    /\ UNCHANGED <<fnIn, serverTz>>
    /\ UNCHANGED <<orchVars, proxyVars, clientVars>>

SortNext == SortEvents

SortSpec == SortInit /\ [][SortNext]_vars

-----------------------------------------------------------------------------
(* Repeated runs against frozen upstream payloads: every upstream answers   *)
(* each request with the same payload (fnIn), the clock stands still, and   *)
(* the first answer is kept (fnOut) to compare the later ones with.         *)

MaxRuns == 2

FrozenPayloads ==
    [music : SegmentAnswers("music"), comedy : SegmentAnswers("comedy"),
     dcimprov : DcImprovAnswers, rss : RssAnswers]

FrozenInit ==
    /\ apiKey = TRUE
    /\ serverTz = 0
    /\ enabled \in SUBSET SourceIds
    /\ now = 0
    /\ cache = {}
    /\ phase = "idle"
    /\ query = NoQuery
    /\ context = NoContext
    /\ fetchState = [s \in SourceIds |-> "none"]
    /\ results = [s \in SourceIds |-> NoResult]
    /\ netCalls = [s \in SourceIds |-> 0]
    /\ response = NoResponse
    /\ eventbriteCache = <<>>
    /\ initialized = FALSE
    /\ isDiscovering = FALSE
    /\ cachedEvents = NoCache
    /\ showsRequests = <<>>
    /\ fnPc = 1
    /\ fnIn \in FrozenPayloads
    /\ fnOut = <<>>

FrozenRequest ==
    \E q \in {m \in MainQueries : m.latlon} : Request(q)

FrozenSettle ==
    \E s \in SourceIds, writeOk \in BOOLEAN :
        \/ SettleUnsupported(s)
        \/ SettleTicketmaster(s, fnIn.music, fnIn.comedy, writeOk)
        \/ SettleDcImprov(s, fnIn.dcimprov, writeOk)
        \/ SettleRss(s, fnIn.rss, writeOk)

\* the same request is sent again; the first answer is kept
RunAgain ==
    /\ phase = "done"
    /\ fnPc < MaxRuns
    /\ fnPc' = fnPc + 1
    /\ fnOut' = IF fnOut = <<>> THEN <<response>> ELSE fnOut
    /\ phase' = "idle"
    /\ query' = NoQuery
    /\ context' = NoContext
    /\ fetchState' = [s \in SourceIds |-> "none"]
    /\ results' = [s \in SourceIds |-> NoResult]
    /\ netCalls' = [s \in SourceIds |-> 0]
    /\ response' = NoResponse
    /\ UNCHANGED <<apiKey, serverTz, enabled, now, cache, fnIn>>
    /\ UNCHANGED <<proxyVars, clientVars>>

FrozenNext ==
    \/ FrozenRequest
    \/ FrozenSettle
    \/ Respond
    \/ RunAgain

FrozenSpec == FrozenInit /\ [][FrozenNext]_vars

-----------------------------------------------------------------------------
(* eventbriteProxy (functions): an in-memory Map in front of the shared     *)
(* response cache.  In this part the clock (now) counts milliseconds.       *)

EVENTBRITE_CACHE_TTL_MS == 86400000

EVENTBRITE_CACHE_MAX_ENTRIES == 200

MaxOverrun == 1

\* the cached value null
NoEntry == [status |-> 0, text |-> ""]

\* position of the key in the Map, 0 when it has none
entryIndex(map, key) ==
    IF \E i \in 1..Len(map) : map[i].key = key
    THEN CHOOSE i \in 1..Len(map) : map[i].key = key
    ELSE 0

\* Map.prototype.delete
removeAt(map, i) == SubSeq(map, 1, i - 1) \o SubSeq(map, i + 1, Len(map))

\* getEventbriteCacheEntry: the value and the Map it leaves; an entry older
\* than the TTL is deleted, a live one is moved to the end
getEventbriteCacheEntry(map, key) ==
    LET i == entryIndex(map, key)
    IN IF i = 0 THEN [value |-> NoEntry, map |-> map]
       ELSE IF now - map[i].timestamp > EVENTBRITE_CACHE_TTL_MS
       THEN [value |-> NoEntry, map |-> removeAt(map, i)]
       ELSE [value |-> map[i].value, map |-> Append(removeAt(map, i), map[i])]

\* setEventbriteCacheEntry: Map.set keeps the place of a key it already has;
\* beyond the maximum size the oldest key is dropped
setEventbriteCacheEntry(map, key, value) ==
    LET i == entryIndex(map, key)
        entry == [key |-> key, timestamp |-> now, value |-> value]
        stored == IF i = 0 THEN Append(map, entry) ELSE [map EXCEPT ![i] = entry]
    IN IF Len(stored) > EVENTBRITE_CACHE_MAX_ENTRIES THEN Tail(stored) ELSE stored

\* toDateString(new Date()): the UTC day of the clock
today == now \div EVENTBRITE_CACHE_TTL_MS

\* normalizeDateString(startParam) || today
normalizedStart(q) == IF q.startDate # Null THEN q.startDate ELSE today

\* eventbriteMemoryCacheKey for the one location, radius and day count of the
\* model: scope and start date
eventbriteMemoryCacheKey(q) ==
    <<IF q.token # "" THEN "manual" ELSE "server", normalizedStart(q)>>

\* eventbriteCacheKeyParts: the token in use and the start date
eventbriteCacheKeyParts(q) ==
    <<"eventbrite", IF q.token # "" THEN q.token ELSE "default", normalizedStart(q)>>

ProxyResponse(status, error, text) ==
    [status |-> status, error |-> error, text |-> text]

\* what the handler did: its response, the Map and the shared cache it leaves,
\* the value its Map lookup returned, the value it stored in the Map, and the
\* upstream requests it issued
ProxyOutcome(resp, map, shared, cached, stored, calls) ==
    [response |-> resp, map |-> map, shared |-> shared, cached |-> cached,
     stored |-> stored, calls |-> calls]

\* exports.eventbriteProxy: upstream is the answer fetch would give, writeOk
\* whether writeCachedResponse returns rather than throws
eventbriteProxy(q, upstream, writeOk) ==
    IF q.method = "OPTIONS"
    THEN ProxyOutcome(ProxyResponse(204, "", ""), eventbriteCache, cache, NoEntry, NoEntry, 0)
    ELSE IF q.method # "GET"
    THEN ProxyOutcome(ProxyResponse(405, "method_not_allowed", ""),
                      eventbriteCache, cache, NoEntry, NoEntry, 0)
    ELSE IF ~q.latlon
    THEN ProxyOutcome(ProxyResponse(400, "missing_coordinates", ""),
                      eventbriteCache, cache, NoEntry, NoEntry, 0)
    ELSE
    LET memoryKey == eventbriteMemoryCacheKey(q)
        lookup == getEventbriteCacheEntry(eventbriteCache, memoryKey)
        cached == lookup.value
        sharedCached == readCachedResponse("eventbriteCache",
                                           eventbriteCacheKeyParts(q),
                                           EVENTBRITE_CACHE_TTL_MS)
    IN IF cached # NoEntry
       THEN ProxyOutcome(ProxyResponse(cached.status, "", cached.text),
                         lookup.map, cache, cached, NoEntry, 0)
       ELSE IF sharedCached # {}
       THEN LET body == (CHOOSE e \in sharedCached : TRUE).events
            IN ProxyOutcome(ProxyResponse(body.status, "", body.text),
                            setEventbriteCacheEntry(lookup.map, memoryKey, body),
                            cache, cached, body, 0)
       ELSE IF upstream.threw
       THEN ProxyOutcome(ProxyResponse(500, "eventbrite_proxy_failed", ""),
                         lookup.map, cache, cached, NoEntry, 1)
       ELSE
       LET value == [status |-> upstream.status, text |-> upstream.text]
           map == setEventbriteCacheEntry(lookup.map, memoryKey, value)
       IN IF upstream.status = 200 /\ ~writeOk
          THEN ProxyOutcome(ProxyResponse(500, "eventbrite_proxy_failed", ""),
                            map, cache, cached, value, 1)
          ELSE ProxyOutcome(ProxyResponse(upstream.status, "", upstream.text),
                            map,
                            IF upstream.status = 200
                            THEN writeCachedResponse("eventbriteCache",
                                                     eventbriteCacheKeyParts(q), value)
                            ELSE cache,
                            cached, value, 1)

\* requests with and without a startDate parameter, one without coordinates
\* and two with other methods
ProxyQueries ==
    { [method |-> "GET",     latlon |-> TRUE,  token |-> "", startDate |-> Null],
      [method |-> "GET",     latlon |-> TRUE,  token |-> "", startDate |-> 0],
      [method |-> "GET",     latlon |-> FALSE, token |-> "", startDate |-> Null],
      [method |-> "OPTIONS", latlon |-> TRUE,  token |-> "", startDate |-> Null],
      [method |-> "POST",    latlon |-> TRUE,  token |-> "", startDate |-> Null] }

ProxyUpstream ==
    { [threw |-> TRUE,  status |-> 0,   text |-> ""],
      [threw |-> FALSE, status |-> 200, text |-> "events-a"],
      [threw |-> FALSE, status |-> 200, text |-> "events-b"],
      [threw |-> FALSE, status |-> 503, text |-> "unavailable"] }

\* no upstream request was issued
NoUpstream == [threw |-> FALSE, status |-> 0, text |-> ""]

ProxyInstants ==
    {0, 1} \cup
    {EVENTBRITE_CACHE_TTL_MS + d : d \in (0 - 1)..MaxOverrun}

\* the latest write of each key of the Map, kept for the properties
LastWrite(key) == {w \in fnIn : w.key = key}

ProxyInit ==
    /\ OrchIdle
    /\ serverTz = 0
    /\ fnPc = "proxy"
    /\ fnIn = {}
    /\ fnOut = <<>>

\* one request to the function, from arrival to response
ProxyRequest(q, upstream, writeOk) ==
    LET out == eventbriteProxy(q, upstream, writeOk)
        key == eventbriteMemoryCacheKey(q)
        keyed == q.method = "GET" /\ q.latlon
    IN /\ fnPc = "proxy"
       /\ query' = q
       /\ response' = out.response
       /\ eventbriteCache' = out.map
       /\ cache' = out.shared
       /\ fnIn' = IF out.stored # NoEntry
                  THEN {w \in fnIn : w.key # key}
                       \cup {[key |-> key, at |-> now, value |-> out.stored]}
                  ELSE fnIn
       /\ fnOut' = [keyed |-> keyed,
                    age |-> IF keyed /\ LastWrite(key) # {}
                            THEN now - (CHOOSE w \in LastWrite(key) : TRUE).at
                            ELSE Null,
                    written |-> IF keyed /\ LastWrite(key) # {}
                                THEN (CHOOSE w \in LastWrite(key) : TRUE).value
                                ELSE NoEntry,
                    cached |-> out.cached,
                    calls |-> out.calls,
                    upstream |-> IF out.calls > 0 THEN upstream ELSE NoUpstream]
       /\ UNCHANGED <<apiKey, serverTz, enabled, now, phase, context, fetchState,
                      results, netCalls, fnPc>>
       /\ UNCHANGED clientVars

\* time passes between two requests
ProxyTick ==
    /\ fnPc = "proxy"
    /\ \E t \in ProxyInstants : t > now /\ now' = t
    /\ UNCHANGED <<apiKey, serverTz, enabled, cache, phase, query, context,
                   fetchState, results, netCalls, response, eventbriteCache,
                   fnPc, fnIn, fnOut>>
    /\ UNCHANGED clientVars

ProxyNext ==
    \/ \E q \in ProxyQueries, upstream \in ProxyUpstream, writeOk \in BOOLEAN :
          ProxyRequest(q, upstream, writeOk)
    \/ ProxyTick

ProxySpec == ProxyInit /\ [][ProxyNext]_vars

-----------------------------------------------------------------------------
(* Harness for the event ids: one upstream item is parsed at several times. *)
(* Here the clock (now) counts minutes of a calendar of twelve 31-day       *)
(* months, so that year, month and day can be read off an instant.          *)

MaxParses == 2

DaysPerModelMonth == 30 + 1

CalendarInstant(year, monthIndex, day, minutes) ==
    ((year * 12 + monthIndex) * DaysPerModelMonth + day) * MinutesPerDay + minutes

getFullYear(instant) == instant \div (12 * DaysPerModelMonth * MinutesPerDay)

getMonth(instant) == (instant \div (DaysPerModelMonth * MinutesPerDay)) % 12

\* resolveDcImprovYear: next year when the date lies more than a day back and
\* in an earlier month than today's
resolveDcImprovYear(monthIndex, day, todayInstant) ==
    LET baseYear == getFullYear(todayInstant)
        candidate == CalendarInstant(baseYear, monthIndex, day, 0)
    IN IF candidate < todayInstant - MinutesPerDay /\ monthIndex < getMonth(todayInstant)
       THEN baseYear + 1
       ELSE baseYear

\* parseDcImprovDateLine: the zone-less local start of a "Month day @ time"
\* line, at 20:00 when the line has no time
parseDcImprovDateLine(line, todayInstant) ==
    LET year == resolveDcImprovYear(line.monthIndex, line.day, todayInstant)
    IN [t |-> CalendarInstant(year, line.monthIndex, line.day,
                              IF line.time # Null THEN line.time ELSE 20 * 60),
        timed |-> TRUE, z |-> FALSE]

\* upstream items: DC Improv date lines with a show, RSS items with a guid and
\* a start, a Ticketmaster event with its id
IdItems ==
    { [source |-> "dcimprov", name |-> "show-a", monthIndex |-> m, day |-> d,
       time |-> 19 * 60, start |-> Null] :
         <<m, d>> \in {<<11, 30>>, <<2, 5>>, <<0, 5>>} }
    \cup
    { [source |-> "smithsonian", name |-> "guid-1", monthIndex |-> Null, day |-> Null,
       time |-> Null, start |-> s] :
         s \in {Null, CalendarInstant(1, 2, 5, 19 * 60)} }
    \cup
    { [source |-> "ticketmaster", name |-> "G1", monthIndex |-> Null, day |-> Null,
       time |-> Null, start |-> Null] }

\* the id the item's adapter gives the event: formatTicketmasterEvent keeps the
\* upstream id
emittedId(item) ==
    IF item.source = "dcimprov"
    THEN buildDcImprovEventId(item.name, parseDcImprovDateLine(item, now))
    ELSE IF item.source = "ticketmaster" THEN TmId(item.name)
    ELSE buildRssEventId(item.source, item.name, item.start)

\* 30 December, then 2 January, 7 March and 2 April of the next year, at noon
IdInstants ==
    { CalendarInstant(0, 11, 30, 12 * 60), CalendarInstant(1, 0, 2, 12 * 60),
      CalendarInstant(1, 2, 7, 12 * 60),   CalendarInstant(1, 3, 2, 12 * 60) }

IdInit ==
    /\ OrchIdle
    /\ serverTz = 0
    /\ fnPc = "ids"
    /\ fnIn \in IdItems
    /\ fnOut = <<>>

\* the adapter parses the payload
ParseItem ==
    /\ fnPc = "ids"
    /\ now \in IdInstants
    /\ Len(fnOut) < MaxParses
    /\ fnOut' = Append(fnOut, [id |-> emittedId(fnIn), at |-> now])
    /\ UNCHANGED <<apiKey, serverTz, enabled, now, cache, phase, query, context,
                   fetchState, results, netCalls, response, eventbriteCache,
                   fnPc, fnIn>>
    /\ UNCHANGED clientVars

\* time passes between two fetches
IdTick ==
    /\ fnPc = "ids"
    /\ \E t \in IdInstants : t > now /\ now' = t
    /\ UNCHANGED <<apiKey, serverTz, enabled, cache, phase, query, context,
                   fetchState, results, netCalls, response, eventbriteCache,
                   fnPc, fnIn, fnOut>>
    /\ UNCHANGED clientVars

IdNext == ParseItem \/ IdTick

IdSpec == IdInit /\ [][IdNext]_vars

-----------------------------------------------------------------------------
(* Harness for the genres of an event.  A name is <<letters, casing>>: the  *)
(* letters in lower case and whether the name is written in lower case or   *)
(* capitalised.                                                             *)

MaxGenres == 3

\* String.prototype.toLowerCase
toLowerCase(name) == <<name[1], "lower">>

GenreNames ==
    { <<"rock", "title">>, <<"rock", "lower">>, <<"museum", "lower">>,
      <<"2024-01-03", "lower">>, <<"", "lower">> }

\* isCategoryDateLike: the value contains a yyyy-mm-dd date
isCategoryDateLike(name) == name[1] = "2024-01-03"

\* new Set(...) read back with Array.from: the first of equal strings, in
\* insertion order
RECURSIVE arrayFromSet(_, _)
arrayFromSet(kept, rest) ==
    IF rest = <<>> THEN kept
    ELSE IF \E i \in 1..Len(kept) : kept[i] = Head(rest)
         THEN arrayFromSet(kept, Tail(rest))
         ELSE arrayFromSet(Append(kept, Head(rest)), Tail(rest))

\* formatTicketmasterEvent: genres is the Set of the non-empty classification
\* names
ticketmasterGenres(names) ==
    arrayFromSet(<<>>, SelectSeq(names, LAMBDA name : name[1] # ""))

\* parseIcalFeed: genres are the CATEGORIES values that are not date-like
icalGenres(categories) ==
    SelectSeq(SelectSeq(categories, LAMBDA name : name[1] # ""),
              LAMBDA category : ~isCategoryDateLike(category))

\* parseRssEventItem: the categories that are not date-like, and for the
\* smithsonian source 'Museum' when no genre equals it in lower case
rssGenres(sourceId, categories) ==
    LET genres == SelectSeq(SelectSeq(categories, LAMBDA name : name[1] # ""),
                            LAMBDA category : ~isCategoryDateLike(category))
    IN IF sourceId = "smithsonian"
          /\ ~\E i \in 1..Len(genres) : toLowerCase(genres[i]) = <<"museum", "lower">>
       THEN Append(genres, <<"museum", "title">>)
       ELSE genres

GenreInit ==
    /\ OrchIdle
    /\ serverTz = 0
    /\ fnPc = "names"
    /\ fnIn \in [adapter : {"ticketmaster", "ical", "rss"},
                 names : UNION {[1..n -> GenreNames] : n \in 0..MaxGenres}]
    /\ fnOut = <<>>

\* the adapter builds the genres of the event
EmitGenres ==
    /\ fnPc = "names"
    /\ fnOut' = IF fnIn.adapter = "ticketmaster" THEN ticketmasterGenres(fnIn.names)
                ELSE IF fnIn.adapter = "ical" THEN icalGenres(fnIn.names)
                ELSE rssGenres("smithsonian", fnIn.names)
    /\ fnPc' = "genres"
    /\ UNCHANGED <<fnIn, serverTz>>
    /\ UNCHANGED <<orchVars, proxyVars, clientVars>>

GenreNext == EmitGenres

GenreSpec == GenreInit /\ [][GenreNext]_vars

-----------------------------------------------------------------------------
(***************************************************************************)
(* The browser client: initShowsPanel and discoverNewEvents.  Under        *)
(* ClientSpec now counts milliseconds, fnPc maps each initShowsPanel call   *)
(* to its position, fnIn holds the page's environment and fnOut the issuer *)
(* of the /api/shows request in flight.  Issuer 0 is a control of the page *)
(* (date picker, refresh button); issuer c > 0 is the c-th call of         *)
(* initShowsPanel.                                                         *)
(***************************************************************************)
MaxInitCalls == 2

MaxShowsRequests == 3

CACHE_TTL_MS == 21600000

InitCalls == 1..MaxInitCalls

\* Date.now() values around the time to live of an item fetched at 0
ClientInstants == {1, CACHE_TTL_MS - 1, CACHE_TTL_MS, CACHE_TTL_MS + 1}

\* localStorage items loadCachedEvents can return; location is whether the
\* stored location is DEFAULT_LOCATION
StoredCaches ==
    {NoCache} \cup
    [count : {0, 1}, fetchedAt : {0 - 1, 0}, location : BOOLEAN]

\* /api/shows answers: ok with a number of events, an error status, a throw
ShowsAnswers ==
    {[ok |-> TRUE, count |-> 0], [ok |-> TRUE, count |-> 1],
     [ok |-> FALSE, count |-> 0]}

loadCachedEvents == cachedEvents

isCacheFresh(stored) ==
    IF stored = NoCache \/ stored.fetchedAt < 0
    THEN FALSE
    ELSE now - stored.fetchedAt < CACHE_TTL_MS

hasEvents(stored) == stored # NoCache /\ stored.count > 0

saveEventsToCache(count) ==
    [count |-> count, fetchedAt |-> now, location |-> TRUE]

\* a discoverNewEvents without its isDiscovering guard
discoverNewEvents_Unguarded(busy, forceRefresh) ==
    IF /\ ~forceRefresh
       /\ loadCachedEvents # NoCache
       /\ loadCachedEvents.location
       /\ isCacheFresh(loadCachedEvents)
       /\ hasEvents(loadCachedEvents)
    THEN "cache"
    ELSE "fetch"

\* what a call of discoverNewEvents does before its first await
discoverNewEvents(busy, forceRefresh) ==
    IF busy
    THEN "busy"
    ELSE IF /\ ~forceRefresh
            /\ loadCachedEvents # NoCache
            /\ loadCachedEvents.location
            /\ isCacheFresh(loadCachedEvents)
            /\ hasEvents(loadCachedEvents)
         THEN "cache"
         ELSE "fetch"

\* initShowsPanel's test before its first discoverNewEvents call
needsInitialFetch(isTest) ==
    LET cached == loadCachedEvents
        cacheFresh == cached # NoCache
                      /\ (isCacheFresh(cached) \/ (isTest /\ hasEvents(cached)))
    IN  ~cacheFresh \/ ~hasEvents(cached)

needsForcedRefresh_Always(didInitialFetch) == TRUE

\* initShowsPanel's test before its forced discoverNewEvents call
needsForcedRefresh(didInitialFetch) == ~didInitialFetch

requestsOf(issuer) ==
    Cardinality({i \in 1..Len(showsRequests) : showsRequests[i] = issuer})

\* the date picker's listeners exist once a call has run initDatePickerControl
pickerInstalled ==
    \E c \in InitCalls : fnPc[c] \in {"fetch1", "fetch2", "done"}

\* the refresh button's listener is added at the end of initShowsPanel
refreshInstalled == \E c \in InitCalls : fnPc[c] = "done"

ClientInit ==
    /\ apiKey = TRUE
    /\ serverTz = 0
    /\ enabled = {}
    /\ now \in ClientInstants
    /\ cache = {}
    /\ phase = "idle"
    /\ query = NoQuery
    /\ context = NoContext
    /\ fetchState = [s \in SourceIds |-> "none"]
    /\ results = [s \in SourceIds |-> NoResult]
    /\ netCalls = [s \in SourceIds |-> 0]
    /\ response = NoResponse
    /\ eventbriteCache = <<>>
    /\ initialized = FALSE
    /\ isDiscovering = FALSE
    /\ cachedEvents \in StoredCaches
    /\ showsRequests = <<>>
    /\ fnPc = [c \in InitCalls |-> "idle"]
    /\ fnIn \in [isTest : BOOLEAN, geolocation : {"granted", "denied"},
                 cache : {cachedEvents}]
    /\ fnOut = <<>>

\* the fetch of discoverNewEvents leaves: the request is on the wire
issueShowsRequest(issuer) ==
    /\ showsRequests' = Append(showsRequests, issuer)
    /\ isDiscovering' = TRUE
    /\ fnOut' = <<issuer>>

\* the forced part of initShowsPanel, run by call c with isDiscovering = busy
forcedRefresh(c, busy, didInitialFetch) ==
    IF /\ needsForcedRefresh(didInitialFetch)
       /\ discoverNewEvents(busy, TRUE) = "fetch"
    THEN /\ issueShowsRequest(c)
         /\ fnPc' = [fnPc EXCEPT ![c] = "fetch2"]
    ELSE /\ fnPc' = [fnPc EXCEPT ![c] = "done"]
         /\ isDiscovering' = busy
         /\ fnOut' = <<>>
         /\ UNCHANGED showsRequests

\* initShowsPanel up to its await of syncShowsStateFromDb
initShowsPanel(c) ==
    /\ fnPc[c] = "idle"
    /\ IF initialized
       THEN /\ fnPc' = [fnPc EXCEPT ![c] = "returned"]
            /\ UNCHANGED initialized
       ELSE /\ fnPc' = [fnPc EXCEPT ![c] = "sync"]
            /\ initialized' = TRUE
    /\ UNCHANGED <<isDiscovering, cachedEvents, showsRequests, fnIn, fnOut>>
    /\ UNCHANGED <<orchVars, proxyVars>>

\* initShowsPanel from the return of syncShowsStateFromDb to its next await
InitAfterSync(c) ==
    /\ fnPc[c] = "sync"
    /\ IF needsInitialFetch(fnIn.isTest)
       THEN IF discoverNewEvents(isDiscovering, FALSE) = "fetch"
            THEN /\ issueShowsRequest(c)
                 /\ fnPc' = [fnPc EXCEPT ![c] = "fetch1"]
            ELSE forcedRefresh(c, isDiscovering, TRUE)
       ELSE forcedRefresh(c, isDiscovering, FALSE)
    /\ UNCHANGED <<initialized, cachedEvents, fnIn>>
    /\ UNCHANGED <<orchVars, proxyVars>>

\* the request in flight settles; discoverNewEvents finishes and, when it was
\* awaited by initShowsPanel, that call runs on to its next await or its end
FetchDone(answer) ==
    /\ fnOut # <<>>
    /\ cachedEvents' = IF answer.ok
                       THEN saveEventsToCache(answer.count)
                       ELSE cachedEvents
    /\ LET issuer == fnOut[1]
       IN  IF issuer \in InitCalls /\ fnPc[issuer] = "fetch1"
           THEN forcedRefresh(issuer, FALSE, TRUE)
           ELSE /\ isDiscovering' = FALSE
                /\ fnOut' = <<>>
                /\ fnPc' = IF issuer \in InitCalls
                           THEN [fnPc EXCEPT ![issuer] = "done"]
                           ELSE fnPc
                /\ UNCHANGED showsRequests
    /\ UNCHANGED <<initialized, fnIn>>
    /\ UNCHANGED <<orchVars, proxyVars>>

\* a change of the date picker: renderWithPrefsAndMaybeRefresh; covers is
\* whether the stored item covers the chosen number of days
DatePickerChange(covers) ==
    /\ pickerInstalled
    /\ Len(showsRequests) < MaxShowsRequests
    /\ LET cached == loadCachedEvents
           cacheFresh == hasEvents(cached) /\ (isCacheFresh(cached) \/ fnIn.isTest)
           cacheCoversPrefs == cacheFresh /\ covers
       IN  IF (~cacheFresh \/ ~cacheCoversPrefs)
              /\ discoverNewEvents(isDiscovering, FALSE) = "fetch"
           THEN issueShowsRequest(0)
           ELSE UNCHANGED <<showsRequests, isDiscovering, fnOut>>
    /\ UNCHANGED <<initialized, cachedEvents, fnPc, fnIn>>
    /\ UNCHANGED <<orchVars, proxyVars>>

\* a click on the refresh button: a forced discoverNewEvents
RefreshClick ==
    /\ refreshInstalled
    /\ Len(showsRequests) < MaxShowsRequests
    /\ IF discoverNewEvents(isDiscovering, TRUE) = "fetch"
       THEN issueShowsRequest(0)
       ELSE UNCHANGED <<showsRequests, isDiscovering, fnOut>>
    /\ UNCHANGED <<initialized, cachedEvents, fnPc, fnIn>>
    /\ UNCHANGED <<orchVars, proxyVars>>

ClientTick ==
    /\ \E t \in ClientInstants : t > now /\ now' = t
    /\ UNCHANGED <<apiKey, serverTz, enabled, cache, phase, query, context,
                   fetchState, results, netCalls, response>>
    /\ UNCHANGED <<proxyVars, clientVars, fnVars>>

ClientNext ==
    \/ \E c \in InitCalls : initShowsPanel(c)
    \/ \E c \in InitCalls : InitAfterSync(c)
    \/ \E answer \in ShowsAnswers : FetchDone(answer)
    \/ \E covers \in BOOLEAN : DatePickerChange(covers)
    \/ RefreshClick
    \/ ClientTick

ClientSpec == ClientInit /\ [][ClientNext]_vars

-----------------------------------------------------------------------------
(***************************************************************************)
(* fetchTicketmasterEvents' requests, one per segment, under SegmentSpec.  *)
(* fnIn holds the answer each segment's request settled with and the order *)
(* in which the answers arrived; fnOut holds what the adapter made of them *)
(* once Promise.all resolved.                                              *)
(***************************************************************************)
MaxSegmentEvents == 2

NoAnswer == [ok |-> FALSE, status |-> 0, body |-> <<>>]

\* the distance tells the events of the two segments apart
SegmentRawEvents(segment) ==
    {RawTicketmasterEvent(TmId(g), 5, 20 * 60, DayTime(5, 20, 0),
                          IF segment = "music" THEN 3 ELSE 30) : g \in {"G1", "G2"}}

SegmentBodies(segment) ==
    UNION {[1..n -> SegmentRawEvents(segment)] : n \in 0..MaxSegmentEvents}

\* a non-2xx response, a request that threw, a 200 whose body is not JSON,
\* or a 200 with events
SegmentOutcomes(segment) ==
    {Failed(429), Failed(Null), Failed(200)}
    \cup {Ok(body) : body \in SegmentBodies(segment)}

SegmentIndexes == 1..Len(TICKETMASTER_SEGMENTS)

SegmentInit ==
    /\ OrchIdle
    /\ serverTz = 0
    /\ fnPc = "fetching"
    /\ fnIn = [answers |-> [i \in SegmentIndexes |-> NoAnswer], arrival |-> <<>>]
    /\ fnOut = <<>>

\* the request of segment i settles
SegmentArrives(i, answer) ==
    /\ fnPc = "fetching"
    /\ fnIn.answers[i] = NoAnswer
    /\ fnIn' = [answers |-> [fnIn.answers EXCEPT ![i] = answer],
                arrival |-> Append(fnIn.arrival, i)]
    /\ UNCHANGED <<fnPc, fnOut>>
    /\ UNCHANGED <<orchVars, proxyVars, clientVars>>

\* Promise.all resolves with the results in request order; the loop runs
SegmentsSettled ==
    /\ fnPc = "fetching"
    /\ \A i \in SegmentIndexes : fnIn.answers[i] # NoAnswer
    /\ fnOut' = ticketmasterPayload(fnIn.answers[1], fnIn.answers[2])
    /\ fnPc' = "done"
    /\ UNCHANGED fnIn
    /\ UNCHANGED <<orchVars, proxyVars, clientVars>>

SegmentNext ==
    \/ \E i \in SegmentIndexes :
          \E answer \in SegmentOutcomes(TICKETMASTER_SEGMENTS[i]) :
             SegmentArrives(i, answer)
    \/ SegmentsSettled

SegmentSpec == SegmentInit /\ [][SegmentNext]_vars

-----------------------------------------------------------------------------
(***************************************************************************)
(* Deadlines of the providers' network calls, under DeadlineSpec.  An      *)
(* upstream is free never to answer, so UpstreamAnswers has no fairness;   *)
(* the timer of a call that has one, the handlers' own steps and the       *)
(* response are scheduled by the event loop and are weakly fair.  fnOut    *)
(* maps each source to how its fetch ended.                                *)
(***************************************************************************)
\* the calls wrapped in an AbortController with setTimeout: fetchRssEvents
\* has one; fetchTicketmasterSegment and fetchDcImprovEvents call fetch bare
hasRequestDeadline(type) == type = "rss"

DeadlineInit ==
    /\ apiKey = TRUE
    /\ serverTz = 0
    /\ enabled \in SUBSET SourceIds
    /\ now = 0
    /\ cache = {}
    /\ phase = "idle"
    /\ query = NoQuery
    /\ context = NoContext
    /\ fetchState = [s \in SourceIds |-> "none"]
    /\ results = [s \in SourceIds |-> NoResult]
    /\ netCalls = [s \in SourceIds |-> 0]
    /\ response = NoResponse
    /\ eventbriteCache = <<>>
    /\ initialized = FALSE
    /\ isDiscovering = FALSE
    /\ cachedEvents = NoCache
    /\ showsRequests = <<>>
    /\ fnPc = "deadline"
    /\ fnIn = {}
    /\ fnOut = [s \in SourceIds |-> "none"]

DeadlineUnchanged ==
    /\ UNCHANGED <<apiKey, serverTz, enabled, now, cache, query, context,
                   results, netCalls, response, fnPc, fnIn>>
    /\ UNCHANGED <<proxyVars, clientVars>>

\* GET /api/shows maps every enabled source to runDatasourceFetch
DispatchFetches ==
    /\ phase = "idle"
    /\ phase' = "collecting"
    /\ fetchState' = [s \in SourceIds |->
                         IF s \in enabled THEN "pending" ELSE "none"]
    /\ UNCHANGED fnOut
    /\ DeadlineUnchanged

\* a source whose type has no fetch handler resolves without a network call
NoHandlerSettles(s) ==
    /\ phase = "collecting"
    /\ fetchState[s] = "pending"
    /\ ~HasFetchHandler(SourceOf(s).type)
    /\ fetchState' = [fetchState EXCEPT ![s] = "settled"]
    /\ fnOut' = [fnOut EXCEPT ![s] = "unsupported"]
    /\ UNCHANGED phase
    /\ DeadlineUnchanged

\* the upstream of source s answers, well or badly
UpstreamAnswers(s, ok) ==
    /\ phase = "collecting"
    /\ fetchState[s] = "pending"
    /\ HasFetchHandler(SourceOf(s).type)
    /\ fetchState' = [fetchState EXCEPT ![s] = "settled"]
    /\ fnOut' = [fnOut EXCEPT ![s] = IF ok THEN "answered" ELSE "failed"]
    /\ UNCHANGED phase
    /\ DeadlineUnchanged

\* the timer of the call fires and aborts it: the handler throws 408
DeadlineFires(s) ==
    /\ phase = "collecting"
    /\ fetchState[s] = "pending"
    /\ HasFetchHandler(SourceOf(s).type)
    /\ hasRequestDeadline(SourceOf(s).type)
    /\ fetchState' = [fetchState EXCEPT ![s] = "settled"]
    /\ fnOut' = [fnOut EXCEPT ![s] = "timeout"]
    /\ UNCHANGED phase
    /\ DeadlineUnchanged

\* Promise.all has resolved: the response is sent
DeadlineRespond ==
    /\ phase = "collecting"
    /\ allSettled
    /\ phase' = "responded"
    /\ UNCHANGED <<fetchState, fnOut>>
    /\ DeadlineUnchanged

DeadlineNext ==
    \/ DispatchFetches
    \/ \E s \in SourceIds : NoHandlerSettles(s)
    \/ \E s \in SourceIds, ok \in BOOLEAN : UpstreamAnswers(s, ok)
    \/ \E s \in SourceIds : DeadlineFires(s)
    \/ DeadlineRespond

DeadlineSpec ==
    /\ DeadlineInit
    /\ [][DeadlineNext]_vars
    /\ WF_vars(DispatchFetches)
    /\ \A s \in SourceIds : WF_vars(NoHandlerSettles(s))
    /\ \A s \in SourceIds : WF_vars(DeadlineFires(s))
    /\ WF_vars(DeadlineRespond)

-----------------------------------------------------------------------------
(***************************************************************************)
(* The adapters' cache keys, under KeySpec.  fnIn is the configured list   *)
(* of datasources (the defaults and those added through POST               *)
(* /api/datasources), fnOut.entries the cache entries with the source      *)
(* whose fetch wrote each, fnOut.served the cache hits as [reader, writer]. *)
(***************************************************************************)
MaxAddedSources == 2

DefaultSources ==
    {[id |-> "dcimprov", type |-> "dcimprov", feedUrl |-> ""],
     [id |-> "smithsonian", type |-> "rss", feedUrl |-> "trumba"]}

\* what a client may post: any id not taken, a type, a valid feed URL
PostableSources ==
    [id : {"added-1", "added-2"}, type : {"dcimprov", "rss", "ical"},
     feedUrl : {"trumba", "other"}]

icalCacheKeyParts(feedUrl, lookaheadDays) == <<"ical", "v1", feedUrl, lookaheadDays>>

\* the collection and key parts the source's adapter reads and writes
adapterCacheEntry(source, lookaheadDays) ==
    IF source.type = "dcimprov"
    THEN [coll |-> "dcImprovCache", key |-> dcImprovCacheKey]
    ELSE IF source.type = "rss"
    THEN [coll |-> "rssCache", key |-> rssCacheKeyParts(source.feedUrl, lookaheadDays)]
    ELSE [coll |-> "rssCache", key |-> icalCacheKeyParts(source.feedUrl, lookaheadDays)]

KeyInit ==
    /\ OrchIdle
    /\ serverTz = 0
    /\ fnPc = "keys"
    /\ fnIn = DefaultSources
    /\ fnOut = [entries |-> {}, served |-> {}]

\* POST /api/datasources: 409 when the id exists, otherwise the source is saved
postDatasource(source) ==
    /\ Cardinality(fnIn) < Cardinality(DefaultSources) + MaxAddedSources
    /\ fnIn' = IF \E s \in fnIn : s.id = source.id THEN fnIn ELSE fnIn \cup {source}
    /\ UNCHANGED <<fnPc, fnOut>>
    /\ UNCHANGED <<orchVars, proxyVars, clientVars>>

\* one fetch of a source's adapter: a cache hit returns the stored events,
\* a miss fetches and stores them
AdapterFetch(source, lookaheadDays) ==
    /\ source \in fnIn
    /\ LET at == adapterCacheEntry(source, lookaheadDays)
           hits == {e \in fnOut.entries : e.coll = at.coll /\ e.key = at.key}
       IN fnOut' =
            IF hits # {}
            THEN [fnOut EXCEPT !.served =
                     @ \cup {[reader |-> source.id, writer |-> e.writer] : e \in hits}]
            ELSE [fnOut EXCEPT !.entries =
                     @ \cup {[coll |-> at.coll, key |-> at.key, writer |-> source.id]}]
    /\ UNCHANGED <<fnPc, fnIn>>
    /\ UNCHANGED <<orchVars, proxyVars, clientVars>>

KeyNext ==
    \/ \E source \in PostableSources : postDatasource(source)
    \/ \E source \in fnIn, lookaheadDays \in {TICKETMASTER_DEFAULT_DAYS} :
          AdapterFetch(source, lookaheadDays)

KeySpec == KeyInit /\ [][KeyNext]_vars

-----------------------------------------------------------------------------
(***************************************************************************)
(* The lookahead window of the RSS and iCal adapters, under LookaheadSpec. *)
(* now counts minutes; an item is [start, end], either may be Null; fnIn   *)
(* is the adapter's cache entry [writtenAt, events] or <<>>, fnOut the     *)
(* last result returned, with the minute it was returned at.               *)
(***************************************************************************)
MaxFeedItems == 1

RSS_CACHE_TTL_MIN == RSS_CACHE_TTL_S \div 60

LookaheadDays == {1}

\* starts and ends around the cache's time to live and the window's end
FeedItems ==
    {[start |-> s, end |-> e] :
        s \in {Null, 5, 20, MinutesPerDay + 60}, e \in {Null, 10, 40}}

Feeds == UNION {[1..n -> FeedItems] : n \in 0..MaxFeedItems}

FeedInstants == {0, 15, RSS_CACHE_TTL_MIN - 1, RSS_CACHE_TTL_MIN, RSS_CACHE_TTL_MIN + 15}

isEventInLookahead(startIso, endIso, lookaheadDays) ==
    LET windowEnd == now + lookaheadDays * MinutesPerDay
        eventStart == IF startIso # Null THEN startIso ELSE endIso
        eventEnd == IF endIso # Null THEN endIso ELSE startIso
    IN IF startIso = Null /\ endIso = Null THEN TRUE
       ELSE IF eventStart > windowEnd THEN FALSE
       ELSE IF eventEnd < now THEN FALSE
       ELSE TRUE

\* parseRssFeed / parseIcalFeed: the items inside the window, in feed order
parseFeedInWindow(items, lookaheadDays) ==
    SelectSeq(items, LAMBDA item :
                         isEventInLookahead(item.start, item.end, lookaheadDays))

\* fetchRssEvents / fetchIcalEvents: the stored events while the entry is
\* younger than the time to live, otherwise the feed parsed now and stored
fetchFeedEvents(entry, items, lookaheadDays) ==
    IF entry # <<>> /\ now - entry.writtenAt < RSS_CACHE_TTL_MIN
    THEN [events |-> entry.events, cached |-> TRUE, at |-> now,
          lookaheadDays |-> lookaheadDays, entry |-> entry]
    ELSE LET events == parseFeedInWindow(items, lookaheadDays)
         IN [events |-> events, cached |-> FALSE, at |-> now,
             lookaheadDays |-> lookaheadDays,
             entry |-> [writtenAt |-> now, events |-> events]]

LookaheadInit ==
    /\ OrchIdle
    /\ serverTz = 0
    /\ fnPc = "lookahead"
    /\ fnIn = <<>>
    /\ fnOut = <<>>

FeedFetch(items, lookaheadDays) ==
    /\ fnPc = "lookahead"
    /\ LET result == fetchFeedEvents(fnIn, items, lookaheadDays)
       IN /\ fnIn' = result.entry
          /\ fnOut' = [events |-> result.events, cached |-> result.cached,
                       at |-> result.at, lookaheadDays |-> result.lookaheadDays]
    /\ UNCHANGED fnPc
    /\ UNCHANGED <<orchVars, proxyVars, clientVars>>

FeedTick ==
    /\ fnPc = "lookahead"
    /\ \E t \in FeedInstants : t > now /\ now' = t
    /\ UNCHANGED <<apiKey, serverTz, enabled, cache, phase, query, context,
                   fetchState, results, netCalls, response>>
    /\ UNCHANGED <<proxyVars, clientVars, fnVars>>

LookaheadNext ==
    \/ \E items \in Feeds, lookaheadDays \in LookaheadDays :
          FeedFetch(items, lookaheadDays)
    \/ FeedTick

LookaheadSpec == LookaheadInit /\ [][LookaheadNext]_vars

-----------------------------------------------------------------------------
(***************************************************************************)
(* One image-hydration pass (the loop of parseRssFeed and of               *)
(* hydrateBlackCatImages), under HydrateSpec.  An event is [url, hasImage, *)
(* found]: whether it has a link, whether it came with an image, whether   *)
(* its page yields one.  fnIn is [events, limit], fnPc the loop's position *)
(* (0 once the loop has left), fnOut [remaining, attempted, hydrated]:     *)
(* the quota left, the fetches made with the quota each found, and the     *)
(* events given an image.                                                  *)
(***************************************************************************)
MaxHydrateEvents == 3

MaxQuota == 2

HydrateEvents == [url : BOOLEAN, hasImage : BOOLEAN, found : BOOLEAN]

HydrateInputs ==
    [events : UNION {[1..n -> HydrateEvents] : n \in 0..MaxHydrateEvents},
     limit : 0..MaxQuota]

\* a loop that charges the quota for every fetch
remainingAfterFetch_Always(remaining, imageUrl) == remaining - 1

\* if (imageUrl) { event.images = [...]; remaining -= 1; }
remainingAfterFetch(remaining, imageUrl) ==
    IF imageUrl THEN remaining - 1 ELSE remaining

HydrateInit ==
    /\ OrchIdle
    /\ serverTz = 0
    /\ fnIn \in HydrateInputs
    /\ fnPc = 1
    /\ fnOut = [remaining |-> fnIn.limit, attempted |-> {}, hydrated |-> {}]

\* one turn of the loop: break, continue, or fetch and maybe set the image
HydrateStep ==
    /\ fnPc > 0
    /\ IF fnPc > Len(fnIn.events) \/ fnOut.remaining <= 0
       THEN fnPc' = 0 /\ UNCHANGED fnOut
       ELSE LET event == fnIn.events[fnPc]
            IN /\ fnPc' = fnPc + 1
               /\ IF ~event.url \/ event.hasImage
                  THEN UNCHANGED fnOut
                  ELSE fnOut' =
                         [remaining |-> remainingAfterFetch(fnOut.remaining, event.found),
                          attempted |-> fnOut.attempted
                                          \cup {[at |-> fnPc, remaining |-> fnOut.remaining]},
                          hydrated |-> IF event.found
                                       THEN fnOut.hydrated \cup {fnPc}
                                       ELSE fnOut.hydrated]
    /\ UNCHANGED fnIn
    /\ UNCHANGED <<orchVars, proxyVars, clientVars>>

HydrateNext == HydrateStep

HydrateSpec == HydrateInit /\ [][HydrateNext]_vars

-----------------------------------------------------------------------------
(***************************************************************************)
(* The page-scraping parsers (parseDcImprovShows, parseBlackCatSchedule),  *)
(* under ScrapeSpec, one line of the page per step.  A line is a date      *)
(* heading [kind, day, valid] (valid: its month and day can be read), a    *)
(* show entry (a link or title), a time line or other text.  fnIn is       *)
(* [parser, lines]; fnPc the line being read (0 after the last); fnOut     *)
(* [events, currentDate, currentShow], an event being [day, entry] with    *)
(* entry the number of the line of its show entry.                         *)
(***************************************************************************)
MaxLines == 4

NoShow == [entry |-> 0, hasEvent |-> FALSE]

PageLines ==
    {[kind |-> "date", day |-> d, valid |-> TRUE] : d \in {1, 2}}
    \cup {[kind |-> "date", day |-> 0, valid |-> FALSE]}
    \cup {[kind |-> k, day |-> 0, valid |-> FALSE] : k \in {"show", "time", "text"}}

ScrapeInputs ==
    [parser : {"dcimprov", "blackcat"},
     lines : UNION {[1..n -> PageLines] : n \in 0..MaxLines}]

\* a finalizePending that runs after currentDate has been replaced
dateOfPendingShow_New(currentDate, dateInfo) == dateInfo

\* the date finalizePending gives the pending show when a heading arrives:
\* it runs before currentDate = dateInfo
dateOfPendingShow(currentDate, dateInfo) == currentDate

\* finalizePending: a named show without an event gets one at the date given
finalizePending(state, date) ==
    [events |-> IF state.currentShow # NoShow /\ date # Null
                   /\ ~state.currentShow.hasEvent
                THEN Append(state.events,
                            [day |-> date, entry |-> state.currentShow.entry])
                ELSE state.events,
     currentDate |-> state.currentDate,
     currentShow |-> NoShow]

\* one turn of parseDcImprovShows' loop
dcImprovLine(state, line, at) ==
    IF line.kind = "date"
    THEN [state EXCEPT !.currentDate = IF line.valid THEN line.day ELSE Null]
    ELSE IF state.currentDate = Null THEN state
    ELSE IF line.kind = "show"
    THEN [state EXCEPT !.events =
             Append(@, [day |-> state.currentDate, entry |-> at])]
    ELSE state

\* one turn of parseBlackCatSchedule's loop; a heading that cannot be read is
\* a line of text to it
blackCatLine(state, line, at) ==
    IF line.kind = "date" /\ line.valid
    THEN [finalizePending(state, dateOfPendingShow(state.currentDate, line.day))
             EXCEPT !.currentDate = line.day]
    ELSE IF state.currentDate = Null THEN state
    ELSE IF line.kind = "show"
    THEN IF state.currentShow = NoShow \/ state.currentShow.hasEvent
         THEN [state EXCEPT !.currentShow = [entry |-> at, hasEvent |-> FALSE]]
         ELSE state
    ELSE IF state.currentShow = NoShow THEN state
    ELSE IF line.kind = "time"
    THEN [state EXCEPT
             !.events = Append(@, [day |-> state.currentDate,
                                   entry |-> state.currentShow.entry]),
             !.currentShow.hasEvent = TRUE]
    ELSE state

ScrapeInit ==
    /\ OrchIdle
    /\ serverTz = 0
    /\ fnIn \in ScrapeInputs
    /\ fnPc = 1
    /\ fnOut = [events |-> <<>>, currentDate |-> Null, currentShow |-> NoShow]

\* the loop reads the next line, or ends (parseBlackCatSchedule with a last
\* finalizePending)
ScrapeStep ==
    /\ fnPc > 0
    /\ IF fnPc > Len(fnIn.lines)
       THEN /\ fnPc' = 0
            /\ fnOut' = IF fnIn.parser = "blackcat"
                        THEN finalizePending(fnOut, fnOut.currentDate)
                        ELSE fnOut
       ELSE /\ fnPc' = fnPc + 1
            /\ fnOut' = IF fnIn.parser = "blackcat"
                        THEN blackCatLine(fnOut, fnIn.lines[fnPc], fnPc)
                        ELSE dcImprovLine(fnOut, fnIn.lines[fnPc], fnPc)
    /\ UNCHANGED fnIn
    /\ UNCHANGED <<orchVars, proxyVars, clientVars>>

ScrapeNext == ScrapeStep

ScrapeSpec == ScrapeInit /\ [][ScrapeNext]_vars

-----------------------------------------------------------------------------
(***************************************************************************)
(* fetchIcalEvents for the Sixth & I source, under MirrorSpec.  An event   *)
(* is [passes]: whether the source's include/exclude filters keep it.      *)
(* fnIn is the source's configuration [filtered]; fnPc the await the       *)
(* adapter is at; fnOut [requests, mirrored, events, ok]: the requests     *)
(* issued in order, what the first mirror request parsed to, the result.   *)
(***************************************************************************)
MaxMirrorEvents == 3

MirrorEventLists == UNION {[1..n -> [passes : BOOLEAN]] : n \in 0..MaxMirrorEvents}

\* the mirror: a non-2xx answer, a timeout or throw, or a page with events
MirrorOutcomes ==
    {[ok |-> FALSE, status |-> 503, body |-> <<>>],
     [ok |-> FALSE, status |-> 408, body |-> <<>>]}
    \cup {[ok |-> TRUE, status |-> 200, body |-> body] : body \in MirrorEventLists}

\* the feed: a non-2xx answer, a Cloudflare challenge (status 0), a calendar
DirectOutcomes ==
    {[ok |-> FALSE, status |-> 403, body |-> <<>>],
     [ok |-> TRUE, status |-> 0, body |-> <<>>]}
    \cup {[ok |-> TRUE, status |-> 200, body |-> body] : body \in MirrorEventLists}

\* fetchSixthAndIMirrorEvents: [] unless the page was fetched
fetchSixthAndIMirrorEvents(outcome) == IF outcome.ok THEN outcome.body ELSE <<>>

applySourceEventFilters(events, filtered) ==
    IF filtered THEN SelectSeq(events, LAMBDA event : event.passes) ELSE events

\* a test of the mirror's events before the source's filters
mirrorYields_Unfiltered(mirroredEvents, filtered) == mirroredEvents # <<>>

\* if (mirroredEvents.length), after applySourceEventFilters
mirrorYields(mirroredEvents, filtered) ==
    applySourceEventFilters(mirroredEvents, filtered) # <<>>

MirrorInit ==
    /\ OrchIdle
    /\ serverTz = 0
    /\ fnIn \in [filtered : BOOLEAN]
    /\ fnPc = "start"
    /\ fnOut = [requests |-> <<>>, mirrored |-> <<>>, events |-> <<>>, ok |-> FALSE]

\* fetchIcalEvents up to its await of the mirror
StartIcalFetch ==
    /\ fnPc = "start"
    /\ fnPc' = "mirror"
    /\ fnOut' = [fnOut EXCEPT !.requests = Append(@, "mirror")]
    /\ UNCHANGED fnIn
    /\ UNCHANGED <<orchVars, proxyVars, clientVars>>

\* the mirror request settles: return its events, or request the feed
MirrorSettles(outcome) ==
    /\ fnPc = "mirror"
    /\ LET mirroredEvents == fetchSixthAndIMirrorEvents(outcome)
       IN IF mirrorYields(mirroredEvents, fnIn.filtered)
          THEN /\ fnPc' = "done"
               /\ fnOut' = [fnOut EXCEPT
                               !.mirrored = mirroredEvents,
                               !.events = applySourceEventFilters(mirroredEvents,
                                                                  fnIn.filtered),
                               !.ok = TRUE]
          ELSE /\ fnPc' = "direct"
               /\ fnOut' = [fnOut EXCEPT !.mirrored = mirroredEvents,
                                         !.requests = Append(@, "direct")]
    /\ UNCHANGED fnIn
    /\ UNCHANGED <<orchVars, proxyVars, clientVars>>

\* the feed request settles: a refused or challenged one sends the adapter
\* to the mirror once more, otherwise the calendar is parsed
DirectSettles(outcome) ==
    /\ fnPc = "direct"
    /\ IF ~outcome.ok \/ outcome.status = 0
       THEN /\ fnPc' = IF outcome.ok THEN "mirror-again" ELSE "mirror-or-throw"
            /\ fnOut' = [fnOut EXCEPT !.requests = Append(@, "mirror")]
       ELSE /\ fnPc' = "done"
            /\ fnOut' = [fnOut EXCEPT
                            !.events = applySourceEventFilters(outcome.body,
                                                               fnIn.filtered),
                            !.ok = TRUE]
    /\ UNCHANGED fnIn
    /\ UNCHANGED <<orchVars, proxyVars, clientVars>>

\* the second mirror request settles; without events a refused feed throws
\* and a challenge page is parsed as a calendar, giving nothing
MirrorSettlesAgain(outcome) ==
    /\ fnPc \in {"mirror-again", "mirror-or-throw"}
    /\ LET events == fetchSixthAndIMirrorEvents(outcome)
       IN fnOut' = [fnOut EXCEPT
                       !.events = applySourceEventFilters(events, fnIn.filtered),
                       !.ok = (events # <<>> \/ fnPc = "mirror-again")]
    /\ fnPc' = "done"
    /\ UNCHANGED fnIn
    /\ UNCHANGED <<orchVars, proxyVars, clientVars>>

MirrorNext ==
    \/ StartIcalFetch
    \/ \E outcome \in MirrorOutcomes : MirrorSettles(outcome)
    \/ \E outcome \in DirectOutcomes : DirectSettles(outcome)
    \/ \E outcome \in MirrorOutcomes : MirrorSettlesAgain(outcome)

MirrorSpec == MirrorInit /\ [][MirrorNext]_vars

\* ---- the Map of the proxy under reads and writes of a few keys ----

\* reads and writes of one run
MaxCacheOps == 3

\* entries the Map holds when the run starts, one short of the maximum
PrefilledEntries == EVENTBRITE_CACHE_MAX_ENTRIES - 1

\* two keys the Map holds at the start and two it does not
CacheKeys == {1, 2} \cup {PrefilledEntries + k : k \in 1..2}

\* the response body the proxy stores
CacheValues == {[status |-> 200, text |-> "events-a"]}

\* an instant within the TTL of the first entries and one beyond it
CacheInstants == {1, EVENTBRITE_CACHE_TTL_MS + 1}

\* the keys of the Map, in its iteration order
mapKeys(map) == {map[i].key : i \in 1..Len(map)}

\* the keys of a sequence without one of them
withoutKey(keys, key) == SelectSeq(keys, LAMBDA k : k # key)

\* requests that found no entry for their key and have not stored their answer
\* yet: one for the query of key 1, started before another request stored
\* that entry, and one for each new key
InFlightAtStart == {1} \cup {PrefilledEntries + k : k \in 1..2}

\* the Map after as many writes of distinct keys as PrefilledEntries, all at
\* the instant 0; fnIn lists the keys from the least to the most recently
\* read or written
CacheOpsInit ==
    /\ apiKey = TRUE
    /\ serverTz = 0
    /\ enabled = {}
    /\ now = 0
    /\ cache = {}
    /\ phase = "idle"
    /\ query = NoQuery
    /\ context = NoContext
    /\ fetchState = [s \in SourceIds |-> "none"]
    /\ results = [s \in SourceIds |-> NoResult]
    /\ netCalls = [s \in SourceIds |-> 0]
    /\ response = NoResponse
    /\ eventbriteCache = [i \in 1..PrefilledEntries |->
                             [key |-> i, timestamp |-> 0,
                              value |-> [status |-> 200, text |-> "events-a"]]]
    /\ initialized = FALSE
    /\ isDiscovering = FALSE
    /\ cachedEvents = NoCache
    /\ showsRequests = <<>>
    /\ fnPc = "cacheops"
    /\ fnIn = [i \in 1..PrefilledEntries |-> i]
    /\ fnOut = [ops |-> 0, evicted |-> Null, lru |-> Null,
                inflight |-> InFlightAtStart]

CacheOpsUnchanged ==
    /\ UNCHANGED <<apiKey, serverTz, enabled, cache, phase, query, context,
                   fetchState, results, netCalls, response, fnPc>>
    /\ UNCHANGED clientVars

\* a request reads the entry of its key; one that finds none goes on to the
\* shared cache and upstream
CacheRead(key) ==
    LET got == getEventbriteCacheEntry(eventbriteCache, key)
    IN /\ fnPc = "cacheops"
       /\ fnOut.ops < MaxCacheOps
       /\ eventbriteCache' = got.map
       /\ fnIn' = IF got.value # NoEntry
                  THEN Append(withoutKey(fnIn, key), key)
                  ELSE withoutKey(fnIn, key)
       /\ fnOut' = [ops |-> fnOut.ops + 1, evicted |-> Null, lru |-> Null,
                    inflight |-> IF got.value # NoEntry THEN fnOut.inflight
                                 ELSE fnOut.inflight \cup {key}]
       /\ now' = now
       /\ CacheOpsUnchanged

\* a request that found no entry stores its answer; evicted is the key the
\* write dropped, lru the key that was least recently read or written
CacheWrite(key, value) ==
    LET after == setEventbriteCacheEntry(eventbriteCache, key, value)
        used == Append(withoutKey(fnIn, key), key)
        dropped == (mapKeys(eventbriteCache) \cup {key}) \ mapKeys(after)
    IN /\ fnPc = "cacheops"
       /\ fnOut.ops < MaxCacheOps
       /\ key \in fnOut.inflight
       /\ eventbriteCache' = after
       /\ fnIn' = SelectSeq(used, LAMBDA k : k \notin dropped)
       /\ fnOut' = [ops |-> fnOut.ops + 1,
                    evicted |-> IF dropped = {} THEN Null
                                ELSE CHOOSE k \in dropped : TRUE,
                    lru |-> IF dropped = {} THEN Null ELSE Head(used),
                    inflight |-> fnOut.inflight \ {key}]
       /\ now' = now
       /\ CacheOpsUnchanged

\* time passes between two requests
CacheTick ==
    /\ fnPc = "cacheops"
    /\ \E t \in CacheInstants : t > now /\ now' = t
    /\ UNCHANGED <<eventbriteCache, fnIn, fnOut>>
    /\ CacheOpsUnchanged

CacheOpsNext ==
    \/ \E key \in CacheKeys : CacheRead(key)
    \/ \E key \in CacheKeys, value \in CacheValues : CacheWrite(key, value)
    \/ CacheTick

CacheOpsSpec == CacheOpsInit /\ [][CacheOpsNext]_vars

-----------------------------------------------------------------------------
(* Properties of the aggregation                                            *)

\* a request that reached Promise.all and was answered
Answered == phase = "done" /\ query.latlon /\ enabled # {}

Succeeded == {s \in enabled : results[s].ok}

Count(seq, x) == Cardinality({i \in 1..Len(seq) : seq[i] = x})

SummaryOf(s) == {response.sources[i] : i \in {j \in 1..Len(response.sources) :
                                                   response.sources[j].id = s}}

\* C1: when at least one enabled provider's fetch succeeds the request answers
\* 200 with the events of every successful provider, whatever the other
\* providers did; only a request in which no provider succeeded is an error.
C1_PartialFailureStillAnswers ==
    Answered =>
        /\ Succeeded # {} =>
              /\ response.status = 200
              /\ \A s \in Succeeded : \A i \in 1..Len(results[s].events) :
                    Count(response.events, results[s].events[i])
                        = Count(results[s].events, results[s].events[i])
              /\ Len(response.events) >= Len(results[CHOOSE s \in Succeeded : TRUE].events)
        /\ response.status # 200 => Succeeded = {}

\* 200 with DC Improv's events although Ticketmaster answered non-2xx, the RSS
\* feed timed out and one source has an unsupported type
C1_Witness ==
    /\ Answered
    /\ enabled = SourceIds
    /\ response.status = 200
    /\ Succeeded = {"dcimprov"}
    /\ Len(response.events) = 3
    /\ \E i \in 1..4 : response.sources[i].status = 502
    /\ \E i \in 1..4 : response.sources[i].status = 408
    /\ \E i \in 1..4 : response.sources[i].error = "unsupported_source_type"

\* C2: a response is sent only when every dispatched fetch has settled, and it
\* carries exactly one summary per enabled provider, in order: ok:true with a
\* total for a success, ok:false with an error for a failure.
C2_RespondsAfterAllSettledWithAllSummaries ==
    Answered =>
        /\ \A s \in enabled : fetchState[s] = "settled"
        /\ Len(response.sources) = Cardinality(enabled)
        /\ \A i \in 1..Len(response.sources) :
              response.sources[i].id = enabledSources[i].id
        /\ \A s \in enabled :
              /\ Cardinality(SummaryOf(s)) = 1
              /\ \A sum \in SummaryOf(s) :
                    /\ sum.ok = results[s].ok
                    /\ sum.ok => sum.total = Len(results[s].events)
                    /\ ~sum.ok => sum.error # "" /\ sum.total = Null

\* an error response that still carries the four summaries
C2_Witness ==
    /\ Answered
    /\ enabled = SourceIds
    /\ response.status = 502
    /\ Len(response.sources) = 4
    /\ \A i \in 1..4 : ~response.sources[i].ok

\* C3: when no enabled provider succeeds the request fails: HTTP 500 with
\* ticketmaster_api_key_missing when a provider failed for lack of its
\* credential, HTTP 502 when all the failures are upstream failures.
C3_AggregateErrorDistinguishesCauses ==
    (Answered /\ Succeeded = {}) =>
        IF \E s \in enabled : results[s].code = "ticketmaster_api_key_missing"
        THEN response.status = 500 /\ response.error = "ticketmaster_api_key_missing"
        ELSE response.status = 502 /\ response.error = "datasource_fetch_failed"

\* the key is missing and the other enabled provider failed upstream
C3_Witness ==
    /\ Answered
    /\ enabled = {"ticketmaster", "dcimprov"}
    /\ ~apiKey
    /\ results["dcimprov"].summary[1].status = 503
    /\ response.status = 500
    /\ response.error = "ticketmaster_api_key_missing"

C5_CachedOnlyIfAllContributorsCached ==
    (Answered /\ response.status = 200 /\ response.cached) =>
        \A s \in Succeeded :
            Len(results[s].events) > 0 => results[s].cached /\ netCalls[s] = 0

\* three providers, all served from cache
C5_Witness ==
    /\ Answered
    /\ enabled = {"ticketmaster", "dcimprov", "smithsonian"}
    /\ response.status = 200
    /\ response.cached
    /\ \A s \in enabled : Len(results[s].events) > 0 /\ netCalls[s] = 0

\* C10 as stated: in the aggregated result no two events of one provider share
\* an id.
C10_Original_IdsUniquePerProvider ==
    (Answered /\ response.status = 200) =>
        \A i, j \in 1..Len(response.events) :
            (i # j /\ response.events[i].source = response.events[j].source)
                => response.events[i].id # response.events[j].id

-----------------------------------------------------------------------------
(* Properties of the query parameters                                       *)

InRange(n, lo, hi) == lo <= n /\ n <= hi

ClampTo(n, lo, hi) == Min(Max(n, lo), hi)

\* C6: the effective radius, used and reported, is within 1..150 miles (50 when
\* absent or invalid) and the effective lookahead, used and reported, is within
\* 1..60 days (14 when absent or invalid); a number outside the range is clamped
\* to the nearest bound, so a number inside it is used as given.  A radius that
\* is not positive counts as invalid.
C6_ParamsClampedToSpecRange ==
    fnPc = "answered" =>
        /\ fnOut.usedRadius = fnOut.radiusMiles
        /\ fnOut.usedDays = fnOut.lookaheadDays
        /\ InRange(fnOut.radiusMiles, 1 * RadiusScale, 150 * RadiusScale)
        /\ InRange(fnOut.lookaheadDays, 1, MAX_LOOKAHEAD_DAYS)
        /\ fnOut.radiusMiles =
              IF fnIn.radius.kind = "num" /\ fnIn.radius.n > 0
              THEN ClampTo(fnIn.radius.n, 1 * RadiusScale, 150 * RadiusScale)
              ELSE 50 * RadiusScale
        /\ fnOut.lookaheadDays =
              IF fnIn.days.kind = "num"
              THEN ClampTo(fnIn.days.n, 1, MAX_LOOKAHEAD_DAYS)
              ELSE 14

-----------------------------------------------------------------------------
(* Properties of the weekday cutoff                                         *)

IsMondayToFriday(day) == (day % 7) \in 0..4

\* C7: an event is removed by the weekday cutoff exactly when it comes from the
\* structured-API provider, starts on a Monday to Friday and starts strictly
\* before 16:30 (venue time); at or after the cutoff, on a weekend, or from any
\* other provider it is retained.  Items without a start time are left out.
C7_CutoffRemovesExactlyWeekdayMatinees ==
    (fnPc = "filtered" /\ fnIn.localTime # Null) =>
        ( fnOut = <<>>
          <=> ( /\ fnIn.source = "ticketmaster"
                /\ IsMondayToFriday(fnIn.localDate)
                /\ fnIn.localTime < 16 * 60 + 30 ) )

-----------------------------------------------------------------------------
(* Properties of the sort                                                   *)

\* the start time the sort resolves for an event: its UTC time, else its local
\* time; Null when neither parses
ResolvedStart(e) ==
    IF DateParse(e.start.utc) # Null THEN DateParse(e.start.utc)
    ELSE DateParse(e.start.local)

IsPermutation(s, t) ==
    /\ Len(s) = Len(t)
    /\ \E f \in [1..Len(s) -> 1..Len(s)] :
          /\ \A i, j \in 1..Len(s) : i # j => f[i] # f[j]
          /\ \A i \in 1..Len(s) : t[f[i]] = s[i]

\* C8: the output holds the input's events ordered by resolved start time
\* ascending, every event without a parseable start time after all that have
\* one, equal start times ordered by distance ascending, missing distance last.
C8_SortedByTimeThenDistance ==
    fnPc = "sorted" =>
        /\ IsPermutation(fnIn, fnOut)
        /\ \A i, j \in 1..Len(fnOut) : i < j =>
             LET a == fnOut[i]
                 b == fnOut[j]
             IN /\ ~(ResolvedStart(a) = Null /\ ResolvedStart(b) # Null)
                /\ (ResolvedStart(a) # Null /\ ResolvedStart(b) # Null)
                       => ResolvedStart(a) <= ResolvedStart(b)
                /\ (ResolvedStart(a) # Null /\ ResolvedStart(a) = ResolvedStart(b))
                       => /\ ~(a.distance = Null /\ b.distance # Null)
                          /\ (a.distance # Null /\ b.distance # Null)
                                 => a.distance <= b.distance

\* the spec's example [2024-01-03, 2024-01-01, null] -> [01, 03, null], and a
\* tie on the start time broken by distance with the missing distance last
C8_Witness ==
    /\ fnPc = "sorted"
    /\ Len(fnIn) = 3
    /\ ResolvedStart(fnIn[1]) # Null /\ ResolvedStart(fnIn[2]) # Null
    /\ ResolvedStart(fnIn[2]) < ResolvedStart(fnIn[1])
    /\ ResolvedStart(fnIn[3]) = Null
    /\ fnOut = <<fnIn[2], fnIn[1], fnIn[3]>>

\* 0: a parseable UTC start; 1: only a local start; 2: neither
StartTier(e) ==
    IF DateParse(e.start.utc) # Null THEN 0
    ELSE IF DateParse(e.start.local) # Null THEN 1
    ELSE 2

\* C9 as stated: every event with a parseable UTC start precedes every event
\* with only a local start, which precedes every event with neither.
C9_Original_TiersUtcLocalNeither ==
    fnPc = "sorted" =>
        \A i, j \in 1..Len(fnOut) : i < j => StartTier(fnOut[i]) <= StartTier(fnOut[j])

\* C9 (amended): an event with only a local start is placed by that local time
\* among the events that have a UTC start, in ascending order of the instants,
\* and every event with neither start comes after all events that have one.
C9_LocalOnlyInterleavedNeitherLast ==
    fnPc = "sorted" =>
        \A i, j \in 1..Len(fnOut) : i < j =>
            \/ StartTier(fnOut[j]) = 2
            \/ /\ StartTier(fnOut[i]) # 2
               /\ ResolvedStart(fnOut[i]) <= ResolvedStart(fnOut[j])

\* a local-only event sorted ahead of a UTC-timed one, and an event with
\* neither start behind both
C9_Witness ==
    /\ fnPc = "sorted"
    /\ Len(fnOut) = 3
    /\ StartTier(fnOut[1]) = 1
    /\ StartTier(fnOut[2]) = 0
    /\ StartTier(fnOut[3]) = 2
    /\ fnOut # fnIn

-----------------------------------------------------------------------------
(* Properties of repeated runs                                              *)

\* C11: with frozen upstream payloads, the same clock and the same
\* configuration, a later run of the pipeline answers with the same events in
\* the same order as the first run, whatever the order in which the fetches
\* settled and whether a provider was served from cache or from upstream.
C11_RepeatedRunSameEvents ==
    (phase = "done" /\ fnPc > 1) =>
        /\ response.status = fnOut[1].status
        /\ response.events = fnOut[1].events

\* a second run that answered partly from cache and partly from upstream, with
\* events of three providers, after a first run that answered from upstream
C11_Witness ==
    /\ phase = "done"
    /\ fnPc > 1
    /\ response.status = 200
    /\ ~fnOut[1].cached
    /\ enabled = SourceIds
    /\ netCalls["ticketmaster"] > 0
    /\ netCalls["smithsonian"] = 0
    /\ netCalls["dcimprov"] = 0
    /\ \A s \in {"ticketmaster", "dcimprov", "smithsonian"} : Len(results[s].events) > 0

-----------------------------------------------------------------------------
(* Properties of the caches                                                 *)

\* C12 as stated: a read of a key that was written returns the written payload
\* while the time since the write is strictly less than the TTL, and null once
\* the TTL has elapsed.
C12_FreshBeforeTtlNullAfter ==
    (fnPc = "proxy" /\ fnOut # <<>> /\ fnOut.keyed /\ fnOut.age # Null) =>
        IF fnOut.age < EVENTBRITE_CACHE_TTL_MS
        THEN fnOut.cached = fnOut.written
        ELSE fnOut.cached = NoEntry

\* C13 as stated: when the upstream fetch succeeded its result is returned to
\* the caller even if the cache write throws.
C13_WriteFailureNeverFailsRequest ==
    (fnPc = "proxy" /\ fnOut # <<>> /\ fnOut.calls > 0
        /\ ~fnOut.upstream.threw /\ fnOut.upstream.status = 200) =>
        /\ response.status = 200
        /\ response.text = fnOut.upstream.text


\* a Ticketmaster entry of the cache written for the radius and day window of
\* the request in flight and younger than the TTL
FreshTicketmasterEntries ==
    {e \in cache :
        /\ e.coll = "ticketmasterCache"
        /\ e.key[3] = resolvedRadius(context.radiusMiles)
        /\ e.key[5] - e.key[4] = resolvedDays(context.lookaheadDays) * SecondsPerDay
        /\ now - e.writtenAt < TICKETMASTER_CACHE_TTL_S}

\* C14 as stated: once a Ticketmaster fetch has written its combined response
\* to the cache, an identical query arriving within the 15-minute TTL is
\* answered from the cache and issues no upstream request.
C14_IdenticalQueryWithinTtlHitsCache ==
    [][(/\ apiKey
        /\ fetchState["ticketmaster"] = "pending"
        /\ fetchState'["ticketmaster"] = "settled"
        /\ FreshTicketmasterEntries # {})
       => (netCalls'["ticketmaster"] = 0 /\ results'["ticketmaster"].cached)]_vars

-----------------------------------------------------------------------------
(* Properties of the emitted events                                         *)

\* the events the adapters handed to the orchestrator for the request in flight
EmittedEvents ==
    UNION {{results[s].events[i] : i \in 1..Len(results[s].events)} : s \in SourceIds}

\* C15 as stated: every event emitted by an adapter has start.local and
\* start.utc both set or both null.
C15_StartLocalAndUtcTogether ==
    \A e \in EmittedEvents : (e.start.local = NullIso) <=> (e.start.utc = NullIso)


\* C16 as stated: an emitted event's id is not empty and depends on the
\* provider's payload alone: the same payload parsed at two different times
\* gets the same id.
C16_IdDependsOnPayloadOnly ==
    fnPc = "ids" =>
        \A i, j \in 1..Len(fnOut) :
            /\ fnOut[i].id[2] # ""
            /\ fnOut[i].id = fnOut[j].id


\* C17 as stated: the genres of an emitted event contain no two entries that
\* are equal when compared without regard to case.
C17_GenresUniqueIgnoringCase ==
    fnPc = "genres" =>
        \A i, j \in 1..Len(fnOut) :
            i # j => toLowerCase(fnOut[i]) # toLowerCase(fnOut[j])


-----------------------------------------------------------------------------
(* Properties of the browser client *)

-----------------------------------------------------------------------------
(* Properties of the Ticketmaster adapter's segments *)

\* the segments, in request order, whose request was fulfilled with an event
\* of this id
SegmentsWith(id) ==
    {i \in SegmentIndexes :
        /\ fnIn.answers[i].ok
        /\ \E k \in 1..Len(fnIn.answers[i].body) : fnIn.answers[i].body[k].id = id}

\* the first event of this id in the body of segment i
FirstOf(i, id) ==
    LET body == fnIn.answers[i].body
        k == CHOOSE k \in 1..Len(body) :
                /\ body[k].id = id
                /\ \A j \in 1..(k - 1) : body[j].id # id
    IN formatTicketmasterEvent(body[k])

FirstSegmentWith(id) ==
    CHOOSE i \in SegmentsWith(id) : \A j \in SegmentsWith(id) : i <= j

\* C19: the adapter's combined result contains each event id at most once,
\* and for an id returned by several categories the retained event is the
\* one of the first category in configured request order, whichever
\* category's response arrived first.
C19_FirstConfiguredCategoryWins ==
    (fnPc = "done" /\ fnOut.ok) =>
        /\ \A a, b \in 1..Len(fnOut.events) :
              fnOut.events[a].id = fnOut.events[b].id => a = b
        /\ \A a \in 1..Len(fnOut.events) :
              LET id == fnOut.events[a].id
              IN /\ SegmentsWith(id) # {}
                 /\ fnOut.events[a] = FirstOf(FirstSegmentWith(id), id)

\* comedy answered before music, both returned the same id, and the music
\* event of that id is the one in the result
C19_Witness ==
    /\ fnPc = "done"
    /\ fnOut.ok
    /\ fnIn.arrival = <<2, 1>>
    /\ \E a \in 1..Len(fnOut.events) :
          /\ SegmentsWith(fnOut.events[a].id) = {1, 2}
          /\ fnOut.events[a].distance = 3

\* the ids of the events of the fulfilled requests
FulfilledIds ==
    UNION {{fnIn.answers[i].body[k].id : k \in 1..Len(fnIn.answers[i].body)} :
              i \in {j \in SegmentIndexes : fnIn.answers[j].ok}}

\* C20: if at least one category request succeeds, the adapter returns the
\* successful categories' events together with one ok/error summary per
\* requested category, in request order; if every category request fails,
\* the adapter reports total failure.
C20_PartialResultsWithSummaryPerCategory ==
    fnPc = "done" =>
        IF \E i \in SegmentIndexes : fnIn.answers[i].ok
        THEN /\ fnOut.ok
             /\ {fnOut.events[a].id : a \in 1..Len(fnOut.events)} = FulfilledIds
             /\ \A a \in 1..Len(fnOut.events) :
                   \E i \in SegmentIndexes :
                      /\ fnIn.answers[i].ok
                      /\ \E k \in 1..Len(fnIn.answers[i].body) :
                            fnOut.events[a] = formatTicketmasterEvent(fnIn.answers[i].body[k])
             /\ Len(fnOut.segments) = Len(TICKETMASTER_SEGMENTS)
             /\ \A i \in SegmentIndexes :
                   /\ fnOut.segments[i].key = TICKETMASTER_SEGMENTS[i]
                   /\ fnOut.segments[i].ok = fnIn.answers[i].ok
                   /\ fnOut.segments[i].status = fnIn.answers[i].status
        ELSE /\ ~fnOut.ok
             /\ fnOut.code = "ticketmaster_fetch_failed"
             /\ fnOut.status = 502

\* the music request was refused, the comedy request returned events: the
\* result has the comedy events and a summary for each of the two
C20_Witness ==
    /\ fnPc = "done"
    /\ ~fnIn.answers[1].ok
    /\ fnIn.answers[2].ok
    /\ fnOut.ok
    /\ Len(fnOut.events) > 0
    /\ Len(fnOut.segments) = 2
    /\ ~fnOut.segments[1].ok
    /\ fnOut.segments[2].ok


-----------------------------------------------------------------------------
(* Properties of the providers' deadlines *)

\* C21: every provider network call is bounded by its own deadline, so every
\* dispatched provider fetch eventually settles and the aggregation request
\* eventually produces a response, even when an upstream never answers.
C21_EveryRequestEventuallyResponds ==
    /\ \A s \in SourceIds : (fetchState[s] = "pending") ~> (fetchState[s] = "settled")
    /\ (phase = "collecting") ~> (phase = "responded")


-----------------------------------------------------------------------------
(* Properties of the adapters' cache keys *)

\* C22: two distinct providers never read or write the same cache entry:
\* every adapter's cache key is namespaced by provider, so a provider is
\* never served events that another provider cached.
C22_NoEntrySharedByTwoProviders ==
    /\ \A s, t \in fnIn :
          s.id # t.id =>
             adapterCacheEntry(s, TICKETMASTER_DEFAULT_DAYS)
                # adapterCacheEntry(t, TICKETMASTER_DEFAULT_DAYS)
    /\ \A hit \in fnOut.served : hit.reader = hit.writer


-----------------------------------------------------------------------------
(* Properties of the lookahead window *)

\* C23: no event returned by an RSS or iCal adapter has a resolved end time
\* already in the past or a start time later than now + lookaheadDays at the
\* moment it is returned, including when the result is served from cache.
C23_ReturnedEventsInsideWindow ==
    fnOut # <<>> =>
        \A i \in 1..Len(fnOut.events) :
           LET item == fnOut.events[i]
               eventStart == IF item.start # Null THEN item.start ELSE item.end
               eventEnd == IF item.end # Null THEN item.end ELSE item.start
           IN (eventStart # Null) =>
                 /\ eventEnd >= fnOut.at
                 /\ eventStart <= fnOut.at + fnOut.lookaheadDays * MinutesPerDay


-----------------------------------------------------------------------------
(* Properties of the image hydration *)

-----------------------------------------------------------------------------
(* Properties of the page-scraping parsers *)

\* the date headings the parser recognises: parseDcImprovShows by the month
\* at the start of the line, parseBlackCatSchedule by reading the date
HeadingsBefore(entry) ==
    {h \in 1..(entry - 1) :
        /\ fnIn.lines[h].kind = "date"
        /\ (fnIn.parser = "blackcat" => fnIn.lines[h].valid)}

\* C25: in both page-scraping parsers a show entry that appears before any
\* recognised date heading produces no event, and every emitted event
\* carries the date of the most recent date heading that precedes its show
\* entry.
C25_EventsCarryPrecedingHeadingDate ==
    \A i \in 1..Len(fnOut.events) :
       LET event == fnOut.events[i]
       IN /\ fnIn.lines[event.entry].kind = "show"
          /\ HeadingsBefore(event.entry) # {}
          /\ LET h == CHOOSE h \in HeadingsBefore(event.entry) :
                         \A g \in HeadingsBefore(event.entry) : g <= h
             IN fnIn.lines[h].valid /\ event.day = fnIn.lines[h].day

\* the Black Cat parser has read a show before any heading, a heading, a
\* show without a time and a second heading: the one event is the second
\* show's, at the first heading's date
C25_Witness ==
    /\ fnPc = 0
    /\ fnIn.parser = "blackcat"
    /\ Len(fnIn.lines) = 4
    /\ fnIn.lines[1].kind = "show"
    /\ fnIn.lines[2].kind = "date" /\ fnIn.lines[2].day = 1
    /\ fnIn.lines[3].kind = "show"
    /\ fnIn.lines[4].kind = "date" /\ fnIn.lines[4].day = 2
    /\ fnOut.events = <<[day |-> 1, entry |-> 3]>>


-----------------------------------------------------------------------------
(* Properties of the mirror fallback *)

DirectRequested == \E i \in 1..Len(fnOut.requests) : fnOut.requests[i] = "direct"

\* C26 as stated: the adapter tries the mirror first and issues the direct
\* iCal request only if the mirror yields no events; when the mirror yields
\* events, no direct iCal request is made.
C26_Original_DirectOnlyWhenMirrorEmpty ==
    /\ fnOut.requests # <<>> => fnOut.requests[1] = "mirror"
    /\ DirectRequested => fnOut.mirrored = <<>>

\* C26, amended: the adapter tries the mirror first and issues the direct
\* iCal request exactly when no mirror event is left after the source's
\* include/exclude filters (a failed or timed-out mirror request counting as
\* none); when a mirror event is left, the filtered mirror events are the
\* result and no direct request is made.
C26_DirectOnlyWhenNoFilteredMirrorEvent ==
    /\ fnOut.requests # <<>> => fnOut.requests[1] = "mirror"
    /\ fnPc \notin {"start", "mirror"} =>
          /\ DirectRequested <=>
                applySourceEventFilters(fnOut.mirrored, fnIn.filtered) = <<>>
          /\ ~DirectRequested =>
                /\ fnOut.requests = <<"mirror">>
                /\ fnOut.events = applySourceEventFilters(fnOut.mirrored, fnIn.filtered)

\* the mirror returned events which the source's filters all removed, and
\* the feed was requested
C26_Witness ==
    /\ fnPc = "done"
    /\ fnIn.filtered
    /\ fnOut.mirrored # <<>>
    /\ fnOut.requests = <<"mirror", "direct">>


C28_BoundedAndEvictsLeastRecentlyUsed ==
    /\ Len(eventbriteCache) <= EVENTBRITE_CACHE_MAX_ENTRIES
    /\ fnPc = "cacheops" /\ fnOut.evicted # Null => fnOut.evicted = fnOut.lru


\* C29: a response the Eventbrite proxy serves from a cache layer, without a
\* request to upstream, is never a non-2xx upstream response.
C29_OnlySuccessfulResponsesReplayed ==
    (fnPc = "proxy" /\ fnOut # <<>> /\ fnOut.keyed /\ fnOut.calls = 0) =>
        response.status \in 200..299


\* C30: a Ticketmaster response served from the cache was written by a fetch
\* in which every requested segment succeeded; with frozen upstream answers
\* the fetch that wrote it got the answers fnIn.music and fnIn.comedy.
C30_CachedResponsesFromCompleteFetches ==
    (/\ fetchState["ticketmaster"] = "settled"
     /\ results["ticketmaster"].ok
     /\ results["ticketmaster"].cached) =>
        (fnIn.music.ok /\ fnIn.comedy.ok)

=============================================================================
